---- MODULE Spec2Model ----
(***************************************************************************)
(* State-machine model of DatabaseReader (src/src/index.js): the           *)
(* connection registry, the query cache, the retry executor and the        *)
(* asynchronous handlers connect / query / disconnect / clearCache.        *)
(* Every handler is cut at its await points: one action per synchronous    *)
(* stretch of code between two suspensions.                                *)
(***************************************************************************)
EXTENDS Integers, Sequences, FiniteSets, Bags, TLC

VARIABLES
    connections,    \* this.connections: id -> connection record
    constructorOptions, \* the options object the constructor was given
    cacheEnabled,   \* this.queryCache is a Map (TRUE) or null (FALSE)
    queryCache,     \* contents of this.queryCache: key -> [result, timestamp]
    cacheTimeout,   \* this.cacheTimeout
    maxConnections, \* this.maxConnections
    retryOptions,   \* this.retryOptions
    now,            \* the wall clock read by Date.now() / new Date()
    nextHandle,     \* identity of the next handle a driver hands out
    pending,        \* the calls suspended at an await (a bag of task records)
    last,           \* the call that completed most recently, with its outcome
    left,           \* number of calls the callers will still make
    handleLog       \* what became of the handles handed out: those whose close
                    \* completed, those whose record a later connect replaced

vars == <<left, pending, now, connections, cacheEnabled, queryCache, cacheTimeout,
          maxConnections, retryOptions, constructorOptions, nextHandle, handleLog,
          last>>

config == <<cacheEnabled, cacheTimeout, maxConnections, retryOptions, constructorOptions>>

(***************************************************************************)
(* Bounds of the model and the small input sets.                           *)
(***************************************************************************)
MaxTime == 3
MaxCalls == 4
MaxRetries == 2
MaxTimeout == 3

Callers == {"c1", "c2"}
Ids == {"a", "b"}
TypesIn == {"sqlite", "oracle"}
Queries == {"SELECT 1", "INSERT"}
Results == {"r1", "r2"}
Errors == {"e1", "e2"}

Undefined == "undefined"
NoError == <<>>

Min(x, y) == IF x < y THEN x ELSE y

(***************************************************************************)
(* constructor                                                             *)
(***************************************************************************)
\* options.name: an option the caller left out reads as undefined, which is
\* falsy like 0 and like false, and is written as that falsy value here.
Option(options, name) ==
    IF name \in DOMAIN options THEN options[name]
    ELSE IF name = "enableCache" THEN FALSE ELSE 0

\* JavaScript `value || fallback` on a number option (0 and undefined are falsy).
OrDefault(value, fallback) == IF value = 0 THEN fallback ELSE value

DefaultCacheTimeout == 300000
DefaultMaxConnections == 10
DefaultRetries == 3
DefaultRetryFactor == 2
DefaultMinRetryTimeout == 1000
DefaultMaxRetryTimeout == 5000

Constructor(options) ==
    /\ constructorOptions = options
    /\ connections = << >>
    /\ cacheEnabled = Option(options, "enableCache")
    /\ queryCache = << >>
    /\ cacheTimeout = OrDefault(Option(options, "cacheTimeout"), DefaultCacheTimeout)
    /\ maxConnections = OrDefault(Option(options, "maxConnections"), DefaultMaxConnections)
    /\ retryOptions =
         [retries    |-> OrDefault(Option(options, "retries"), DefaultRetries),
          factor     |-> OrDefault(Option(options, "retryFactor"), DefaultRetryFactor),
          minTimeout |-> OrDefault(Option(options, "minRetryTimeout"),
                                   DefaultMinRetryTimeout),
          maxTimeout |-> OrDefault(Option(options, "maxRetryTimeout"),
                                   DefaultMaxRetryTimeout)]

SupportedTypes == {"sqlite", "mysql", "postgres", "mongodb"}

(***************************************************************************)
(* Errors, as the messages the code builds.                                *)
(***************************************************************************)
CapacityError(n) == <<"Maximum connections (", n, ") reached">>
UnsupportedTypeError(type) == <<"Unsupported database type: ", type>>
NotFoundError(id) == <<"No connection found with id: ", id>>
DriverError(e) == <<e>>

(***************************************************************************)
(* executeWithRetry, as a run record stepped at its two await points       *)
(* (await fn() and the await of the backoff timer).                        *)
(*   i, delay, lastError : the locals of the function                      *)
(*   pc      : "exec" (awaiting fn), "sleep" (awaiting the timer),         *)
(*             "returned", "thrown", "none" (no run)                       *)
(*   events  : what the run did, in order: calls of fn, failures,          *)
(*             logger.warn reports, sleeps                                 *)
(***************************************************************************)
NoRun == [i |-> 0, delay |-> 0, lastError |-> NoError, pc |-> "none",
          events |-> << >>, value |-> Undefined, thrown |-> NoError]

CallEvent(i) == [kind |-> "call", attempt |-> i]
FailEvent(i, err) == [kind |-> "fail", attempt |-> i, error |-> err]
WarnEvent(i, options, delay) ==
    [kind |-> "warn", attempt |-> i + 1, retries |-> options.retries, delay |-> delay]
SleepEvent(delay) == [kind |-> "sleep", delay |-> delay]

\* let lastError; let delay = options.minTimeout; for (let i = 0; i <= retries; ...) fn()
RetryStart(options) ==
    IF 0 <= options.retries
    THEN [NoRun EXCEPT !.delay = options.minTimeout, !.pc = "exec",
                       !.events = <<CallEvent(0)>>]
    ELSE [NoRun EXCEPT !.delay = options.minTimeout, !.pc = "thrown"]

\* return await fn()
RetryOnSuccess(run, result) ==
    [run EXCEPT !.pc = "returned", !.value = result]

\* RetryOnFailure with one attempt too few (i + 1 < retries).
RetryOnFailureOffByOne(run, err, options) ==
    LET failed == [run EXCEPT !.lastError = err,
                              !.events = Append(@, FailEvent(run.i, err))]
    IN  IF run.i + 1 < options.retries
        THEN [failed EXCEPT !.pc = "sleep",
                            !.events = @ \o <<WarnEvent(run.i, options, run.delay),
                                              SleepEvent(run.delay)>>]
        ELSE [failed EXCEPT !.pc = "thrown", !.thrown = failed.lastError]

\* RetryOnFailure that keeps the first error instead of the latest.
RetryOnFailureKeepsFirst(run, err, options) ==
    LET failed == [run EXCEPT !.lastError = IF @ = NoError THEN err ELSE @,
                              !.events = Append(@, FailEvent(run.i, err))]
    IN  IF run.i < options.retries
        THEN [failed EXCEPT !.pc = "sleep",
                            !.events = @ \o <<WarnEvent(run.i, options, run.delay),
                                              SleepEvent(run.delay)>>]
        ELSE [failed EXCEPT !.pc = "thrown", !.thrown = failed.lastError]

\* RetryOnFailure that reports before it tests whether another attempt follows.
RetryOnFailureWarnsAlways(run, err, options) ==
    LET failed == [run EXCEPT !.lastError = err,
                              !.events = @ \o <<FailEvent(run.i, err),
                                                WarnEvent(run.i, options, run.delay)>>]
    IN  IF run.i < options.retries
        THEN [failed EXCEPT !.pc = "sleep",
                            !.events = Append(@, SleepEvent(run.delay))]
        ELSE [failed EXCEPT !.pc = "thrown", !.thrown = failed.lastError]

\* catch (error): remember it; warn and sleep when another attempt follows,
\* otherwise leave the loop and throw lastError
RetryOnFailure(run, err, options) ==
    LET failed == [run EXCEPT !.lastError = err,
                              !.events = Append(@, FailEvent(run.i, err))]
    IN  IF run.i < options.retries
        THEN [failed EXCEPT !.pc = "sleep",
                            !.events = @ \o <<WarnEvent(run.i, options, run.delay),
                                              SleepEvent(run.delay)>>]
        ELSE [failed EXCEPT !.pc = "thrown", !.thrown = failed.lastError]

\* the timer fired: widen the delay, i++, next attempt
RetryOnWake(run, options) ==
    [run EXCEPT !.delay = Min(run.delay * options.factor, options.maxTimeout),
                !.i = run.i + 1,
                !.pc = "exec",
                !.events = Append(@, CallEvent(run.i + 1))]

Count(events, kind) ==
    Cardinality({n \in 1..Len(events) : events[n].kind = kind})

(***************************************************************************)
(* Calls in flight.  A task record is one call: its arguments, what it     *)
(* captured before suspending, and, once it is over, its outcome.          *)
(***************************************************************************)
NoOptions == [retries |-> 0, factor |-> 0, minTimeout |-> 0, maxTimeout |-> 0]

\* connectionOptions of a connect(config) that passes only type and id
NoConfig == << >>

NoHandleLog == [closed |-> {}, replaced |-> {}]

\*   sizeAtCall : this.connections.size as connect read it in its capacity check
\*   doneAt     : the clock when the call settled
\*   config     : connect's connectionOptions (config without type and id)
\*   group      : the disconnectAll call a task is, or was made by (0: neither)
\*   via        : the introspection method that made this query call, if one did
\*   backend    : the calls an adapter invoked directly made on the driver's handle
\*   params     : query's params argument
NoParams == << >>

Idle == [op |-> "idle", pc |-> "idle", id |-> "", type |-> "", connection |-> 0,
         query |-> "", cache |-> TRUE, options |-> NoOptions, run |-> NoRun,
         wakeAt |-> 0, sizeAtCall |-> 0, status |-> "none", value |-> Undefined,
         error |-> NoError, doneAt |-> 0, config |-> NoConfig, group |-> 0,
         via |-> "", backend |-> << >>, params |-> NoParams]

Returned(t, value) ==
    [t EXCEPT !.pc = "done", !.status = "ok", !.value = value, !.doneAt = now]
Threw(t, error) ==
    [t EXCEPT !.pc = "done", !.status = "error", !.error = error, !.doneAt = now]

Pending == BagToSet(pending)

\* The query calls whose adapter call is in flight.
Executing == {t \in Pending : t.op = "query" /\ t.pc = "exec"}

\* The suspended calls made by the callers themselves (the disconnect calls that
\* a disconnectAll makes are not).
ByCallers ==
    [t \in {u \in Pending : u.group = 0 \/ u.op = "disconnectAll"} |-> pending[t]]

\* CanCall in a process that a backoff sleep holds up as a whole.
CanCallUnlessAsleep ==
    /\ left > 0 /\ BagCardinality(ByCallers) < Cardinality(Callers)
    /\ \A t \in Pending : t.pc # "sleep"

\* A caller may start a call.
CanCall == left > 0 /\ BagCardinality(ByCallers) < Cardinality(Callers)

\* A new call runs to its first await and is suspended there.
Suspend(t) ==
    /\ pending' = pending (+) SetToBag({t})
    /\ UNCHANGED last

\* A new call is over before any await.
Complete(outcome) ==
    /\ last' = outcome
    /\ UNCHANGED pending

\* The suspended call t resumes and is suspended again, as t2.
Resume(t, t2) ==
    /\ pending' = (pending (-) SetToBag({t})) (+) SetToBag({t2})
    /\ UNCHANGED last

\* The suspended call t resumes and is over.
Finish(t, outcome) ==
    /\ pending' = pending (-) SetToBag({t})
    /\ last' = outcome

Size(map) == Cardinality(DOMAIN map)
Delete(map, key) == [k \in DOMAIN map \ {key} |-> map[k]]
Set(map, key, value) == (key :> value) @@ map

Init ==
    /\ \E enableCache \in BOOLEAN, maxc \in {1, 2} :
         Constructor([enableCache |-> enableCache, cacheTimeout |-> 1,
                      maxConnections |-> maxc, retries |-> 1, retryFactor |-> 2,
                      minRetryTimeout |-> 1, maxRetryTimeout |-> 2])
    /\ now = 0
    /\ nextHandle = 1
    /\ handleLog = NoHandleLog
    /\ pending = EmptyBag
    /\ last = Idle
    /\ left = MaxCalls

(***************************************************************************)
(* connect                                                                 *)
(***************************************************************************)
NewRecord(type, handle, connectionOptions) ==
    [type |-> type, connection |-> handle, config |-> connectionOptions,
     createdAt |-> now, lastUsed |-> now, queryCount |-> 0]

\* ConnectCheck with the limit compared by > instead of >=.
ConnectCheckOffByOne(type) ==
    IF Size(connections) > maxConnections THEN CapacityError(maxConnections)
    ELSE IF type \notin SupportedTypes THEN UnsupportedTypeError(type)
    ELSE NoError

\* ConnectCheck with the type validated before the limit.
ConnectCheckTypeFirst(type) ==
    IF type \notin SupportedTypes THEN UnsupportedTypeError(type)
    ELSE IF Size(connections) >= maxConnections THEN CapacityError(maxConnections)
    ELSE NoError

\* The two checks made before any handshake: the error thrown, or NoError.
ConnectCheck(type) ==
    IF Size(connections) >= maxConnections THEN CapacityError(maxConnections)
    ELSE IF type \notin SupportedTypes THEN UnsupportedTypeError(type)
    ELSE NoError

\* connect({type, id, ...connectionOptions}) up to its first await: the checks,
\* then the handshake starts.
Connect(id, type, connectionOptions) ==
    /\ CanCall
    /\ LET t == [Idle EXCEPT !.op = "connect", !.id = id, !.type = type,
                             !.config = connectionOptions,
                             !.sizeAtCall = Size(connections)]
           err == ConnectCheck(type)
       IN  IF err # NoError
           THEN Complete(Threw(t, err))
           ELSE Suspend([t EXCEPT !.pc = "handshake"])
    /\ left' = left - 1
    /\ UNCHANGED <<connections, queryCache, config, now, nextHandle, handleLog>>

\* connect({type, id})
ConnectCall(id, type) == Connect(id, type, NoConfig)

\* ConnectOk that closes the handle of the record it replaces.
ConnectOkClosesPrevious(t) ==
    /\ t.op = "connect" /\ t.pc = "handshake"
    /\ connections' = Set(connections, t.id, NewRecord(t.type, nextHandle, t.config))
    /\ nextHandle' = nextHandle + 1
    /\ handleLog' = IF t.id \in DOMAIN connections
                    THEN [closed   |-> handleLog.closed
                                         \cup {connections[t.id].connection},
                          replaced |-> handleLog.replaced
                                         \cup {connections[t.id].connection}]
                    ELSE handleLog
    /\ Finish(t, Returned(t, t.id))
    /\ UNCHANGED <<queryCache, config, now, left>>

\* The handshake resolved: store the record, return the id.
ConnectOk(t) ==
    /\ t.op = "connect" /\ t.pc = "handshake"
    /\ connections' = Set(connections, t.id, NewRecord(t.type, nextHandle, t.config))
    /\ nextHandle' = nextHandle + 1
    /\ handleLog' = IF t.id \in DOMAIN connections
                    THEN [handleLog EXCEPT
                              !.replaced = @ \cup {connections[t.id].connection}]
                    ELSE handleLog
    /\ Finish(t, Returned(t, t.id))
    /\ UNCHANGED <<queryCache, config, now, left>>

\* ConnectFail that throws an error of its own around the driver's.
ConnectFailWrapped(t, e) ==
    /\ t.op = "connect" /\ t.pc = "handshake"
    /\ Finish(t, Threw(t, <<"Failed to connect to ", t.type, e>>))
    /\ UNCHANGED <<connections, queryCache, config, now, nextHandle, handleLog, left>>

\* The handshake rejected: log and rethrow the driver's error.
ConnectFail(t, e) ==
    /\ t.op = "connect" /\ t.pc = "handshake"
    /\ Finish(t, Threw(t, DriverError(e)))
    /\ UNCHANGED <<connections, queryCache, config, now, nextHandle, handleLog, left>>

(***************************************************************************)
(* query                                                                   *)
(***************************************************************************)
\* JavaScript values passed as query parameters.
JsNull == [js |-> "null"]
JsUndefined == [js |-> "undefined"]
JsNumber(n) == [js |-> "number", n |-> n]
JsString(str) == [js |-> "string", str |-> str]

\* JSON.stringify of an element of an array: undefined becomes null.
JsonStringifyElement(value) ==
    CASE value.js = "number" -> ToString(value.n)
      [] value.js = "string" -> "\"" \o value.str \o "\""
      [] OTHER -> "null"

RECURSIVE JsonStringifyElements(_)
JsonStringifyElements(values) ==
    IF Len(values) = 0 THEN ""
    ELSE IF Len(values) = 1 THEN JsonStringifyElement(values[1])
    ELSE JsonStringifyElement(values[1]) \o "," \o JsonStringifyElements(Tail(values))

\* JSON.stringify(params), params an array
JsonStringify(params) == "[" \o JsonStringifyElements(params) \o "]"

\* The string hashed by getCacheKey, in its parts; sha256 is taken to be
\* injective, and a query, a string or a plain object of strings, stands for
\* its JSON text.
GetCacheKey(connectionId, query, params) ==
    <<connectionId, ":", query, ":", JsonStringify(params)>>

\* CacheUsed without the look at options.cache.
CacheUsedAlways(useCache) == cacheEnabled

\* this.queryCache && options.cache !== false
CacheUsed(useCache) == cacheEnabled /\ useCache

\* CacheValid with an entry still served at age = cacheTimeout.
CacheValidInclusive(key) ==
    /\ key \in DOMAIN queryCache
    /\ now - queryCache[key].timestamp <= cacheTimeout

\* cached && (Date.now() - cached.timestamp < this.cacheTimeout)
CacheValid(key) ==
    /\ key \in DOMAIN queryCache
    /\ now - queryCache[key].timestamp < cacheTimeout

\* Touch that leaves lastUsed alone.
TouchCountOnly(id) ==
    [connections EXCEPT ![id].queryCount = @ + 1]

\* connectionInfo.lastUsed = new Date(); connectionInfo.queryCount++
Touch(id) ==
    [connections EXCEPT ![id].lastUsed = now, ![id].queryCount = @ + 1]

\* QueryNotFound with the cache consulted before the registry.
QueryNotFoundCacheFirst(t) ==
    /\ t.id \notin DOMAIN connections
    /\ IF CacheUsed(t.cache) /\ CacheValid(GetCacheKey(t.id, t.query, t.params))
       THEN Complete(Returned(t, queryCache[GetCacheKey(t.id, t.query, t.params)].result))
       ELSE Complete(Threw(t, NotFoundError(t.id)))
    /\ UNCHANGED <<connections, queryCache>>

\* const connectionInfo = this.connections.get(connectionId); if (!connectionInfo) throw
QueryNotFound(t) ==
    /\ t.id \notin DOMAIN connections
    /\ Complete(Threw(t, NotFoundError(t.id)))
    /\ UNCHANGED <<connections, queryCache>>

\* Bookkeeping, then the cache lookup; on a hit the cached result is returned.
QueryCacheHit(t) ==
    /\ t.id \in DOMAIN connections
    /\ CacheUsed(t.cache)
    /\ CacheValid(GetCacheKey(t.id, t.query, t.params))
    /\ connections' = Touch(t.id)
    /\ Complete(Returned(t, queryCache[GetCacheKey(t.id, t.query, t.params)].result))
    /\ UNCHANGED queryCache

\* QueryExecute behind a per-connection lock: no adapter call is started on a
\* connection while one is in flight on it.
QueryExecuteSerialized(t) ==
    /\ t.id \in DOMAIN connections
    /\ ~(CacheUsed(t.cache) /\ CacheValid(GetCacheKey(t.id, t.query, t.params)))
    /\ \A u \in Pending : ~(u.op = "query" /\ u.id = t.id)
    /\ connections' = Touch(t.id)
    /\ LET run == RetryStart(retryOptions)
           started == [t EXCEPT !.type = connections[t.id].type,
                                !.connection = connections[t.id].connection,
                                !.options = retryOptions,
                                !.run = run]
       IN  IF run.pc = "thrown"
           THEN Complete(Threw(started, run.thrown))
           ELSE Suspend([started EXCEPT !.pc = "exec"])
    /\ UNCHANGED queryCache

\* Bookkeeping, a miss (or no cache), then executeWithRetry makes its first call.
QueryExecute(t) ==
    /\ t.id \in DOMAIN connections
    /\ ~(CacheUsed(t.cache) /\ CacheValid(GetCacheKey(t.id, t.query, t.params)))
    /\ connections' = Touch(t.id)
    /\ LET run == RetryStart(retryOptions)
           started == [t EXCEPT !.type = connections[t.id].type,
                                !.connection = connections[t.id].connection,
                                !.options = retryOptions,
                                !.run = run]
       IN  IF run.pc = "thrown"
           THEN Complete(Threw(started, run.thrown))
           ELSE Suspend([started EXCEPT !.pc = "exec"])
    /\ UNCHANGED queryCache

\* query(connectionId, query, params, options) up to its first await.
Query(id, query, params, useCache) ==
    /\ CanCall
    /\ LET t == [Idle EXCEPT !.op = "query", !.id = id, !.query = query,
                             !.params = params, !.cache = useCache]
       IN  \/ QueryNotFound(t)
           \/ QueryCacheHit(t)
           \/ QueryExecute(t)
    /\ left' = left - 1
    /\ UNCHANGED <<config, now, nextHandle, handleLog>>

\* query(connectionId, query, [], options)
QueryCall(id, query, useCache) == Query(id, query, NoParams, useCache)

\* QueryOk without the store into the cache.
QueryOkNoStore(t, result) ==
    /\ t.op = "query" /\ t.pc = "exec"
    /\ Finish(t, Returned([t EXCEPT !.run = RetryOnSuccess(@, result)], result))
    /\ UNCHANGED <<connections, queryCache, config, now, nextHandle, handleLog, left>>

\* QueryOk with the bookkeeping done here, after the store into the cache.
QueryOkTouchesLast(t, result) ==
    /\ t.op = "query" /\ t.pc = "exec"
    /\ queryCache' =
         IF CacheUsed(t.cache)
         THEN Set(queryCache, GetCacheKey(t.id, t.query, t.params),
                  [result |-> result, timestamp |-> now])
         ELSE queryCache
    /\ connections' = IF t.id \in DOMAIN connections THEN Touch(t.id) ELSE connections
    /\ Finish(t, Returned([t EXCEPT !.run = RetryOnSuccess(@, result)], result))
    /\ UNCHANGED <<config, now, nextHandle, handleLog, left>>

\* QueryOk that drops the connection's cached reads when a statement other than
\* a SELECT has succeeded.
QueryOkInvalidates(t, result) ==
    /\ t.op = "query" /\ t.pc = "exec"
    /\ queryCache' =
         LET kept == IF t.query = "INSERT" THEN << >> ELSE queryCache
         IN  IF CacheUsed(t.cache)
             THEN Set(kept, GetCacheKey(t.id, t.query, t.params),
                      [result |-> result, timestamp |-> now])
             ELSE kept
    /\ Finish(t, Returned([t EXCEPT !.run = RetryOnSuccess(@, result)], result))
    /\ UNCHANGED <<connections, config, now, nextHandle, handleLog, left>>

\* QueryOk that keeps an entry another call has stored in the meantime.
QueryOkKeepsFirst(t, result) ==
    /\ t.op = "query" /\ t.pc = "exec"
    /\ queryCache' =
         IF CacheUsed(t.cache) /\ ~CacheValid(GetCacheKey(t.id, t.query, t.params))
         THEN Set(queryCache, GetCacheKey(t.id, t.query, t.params),
                  [result |-> result, timestamp |-> now])
         ELSE queryCache
    /\ Finish(t, Returned([t EXCEPT !.run = RetryOnSuccess(@, result)], result))
    /\ UNCHANGED <<connections, config, now, nextHandle, handleLog, left>>

\* The adapter resolved: executeWithRetry returns, the result is cached and returned.
QueryOk(t, result) ==
    /\ t.op = "query" /\ t.pc = "exec"
    /\ queryCache' =
         IF CacheUsed(t.cache)
         THEN Set(queryCache, GetCacheKey(t.id, t.query, t.params),
                  [result |-> result, timestamp |-> now])
         ELSE queryCache
    /\ Finish(t, Returned([t EXCEPT !.run = RetryOnSuccess(@, result)], result))
    /\ UNCHANGED <<connections, config, now, nextHandle, handleLog, left>>

\* QueryFail that removes the entry of the failed query's key when it gives up.
QueryFailEvicts(t, e) ==
    /\ t.op = "query" /\ t.pc = "exec"
    /\ LET run == RetryOnFailure(t.run, DriverError(e), t.options)
           key == GetCacheKey(t.id, t.query, t.params)
       IN  IF run.pc = "thrown"
           THEN /\ Finish(t, Threw([t EXCEPT !.run = run], run.thrown))
                /\ queryCache' = [k \in DOMAIN queryCache \ {key} |-> queryCache[k]]
           ELSE /\ Resume(t, [t EXCEPT !.run = run, !.pc = "sleep",
                                       !.wakeAt = now + t.run.delay])
                /\ UNCHANGED queryCache
    /\ UNCHANGED <<connections, config, now, nextHandle, handleLog, left>>

\* The adapter rejected: executeWithRetry sleeps before a retry, or throws and
\* query logs and rethrows.
QueryFail(t, e) ==
    /\ t.op = "query" /\ t.pc = "exec"
    /\ LET run == RetryOnFailure(t.run, DriverError(e), t.options)
       IN  IF run.pc = "thrown"
           THEN Finish(t, Threw([t EXCEPT !.run = run], run.thrown))
           ELSE Resume(t, [t EXCEPT !.run = run, !.pc = "sleep",
                                    !.wakeAt = now + t.run.delay])
    /\ UNCHANGED <<connections, queryCache, config, now, nextHandle, handleLog, left>>

\* QueryWake that gives up when the connection has left the registry.
QueryWakeIfConnected(t) ==
    /\ t.op = "query" /\ t.pc = "sleep"
    /\ now >= t.wakeAt
    /\ t.id \in DOMAIN connections
    /\ Resume(t, [t EXCEPT !.run = RetryOnWake(@, t.options), !.pc = "exec"])
    /\ UNCHANGED <<connections, queryCache, config, now, nextHandle, handleLog, left>>

\* setTimeout(resolve, delay) fired: the loop goes round and calls the adapter again.
QueryWake(t) ==
    /\ t.op = "query" /\ t.pc = "sleep"
    /\ now >= t.wakeAt
    /\ Resume(t, [t EXCEPT !.run = RetryOnWake(@, t.options), !.pc = "exec"])
    /\ UNCHANGED <<connections, queryCache, config, now, nextHandle, handleLog, left>>

(***************************************************************************)
(* disconnect, clearCache                                                  *)
(***************************************************************************)
\* DisconnectCall that rejects an id it does not find.
DisconnectCallStrict(id) ==
    /\ CanCall
    /\ LET t == [Idle EXCEPT !.op = "disconnect", !.id = id]
       IN  IF id \notin DOMAIN connections
           THEN Complete(Threw(t, NotFoundError(id)))
           ELSE Suspend([t EXCEPT !.pc = "closing",
                                  !.type = connections[id].type,
                                  !.connection = connections[id].connection])
    /\ left' = left - 1
    /\ UNCHANGED <<connections, queryCache, config, now, nextHandle, handleLog>>

\* disconnect(connectionId) up to its await of the handle's close / end.
DisconnectCall(id) ==
    /\ CanCall
    /\ LET t == [Idle EXCEPT !.op = "disconnect", !.id = id]
       IN  IF id \notin DOMAIN connections
           THEN Complete(Returned(t, Undefined))
           ELSE Suspend([t EXCEPT !.pc = "closing",
                                  !.type = connections[id].type,
                                  !.connection = connections[id].connection])
    /\ left' = left - 1
    /\ UNCHANGED <<connections, queryCache, config, now, nextHandle, handleLog>>

\* DisconnectOk that also drops the cache entries of the connection id.
DisconnectOkPurges(t) ==
    /\ t.op = "disconnect" /\ t.pc = "closing"
    /\ connections' = Delete(connections, t.id)
    /\ queryCache' = [k \in {key \in DOMAIN queryCache : key[1] # t.id} |-> queryCache[k]]
    /\ handleLog' = [handleLog EXCEPT !.closed = @ \cup {t.connection}]
    /\ Finish(t, Returned(t, Undefined))
    /\ UNCHANGED <<config, now, nextHandle, left>>

\* close resolved: this.connections.delete(connectionId)
DisconnectOk(t) ==
    /\ t.op = "disconnect" /\ t.pc = "closing"
    /\ connections' = Delete(connections, t.id)
    /\ handleLog' = [handleLog EXCEPT !.closed = @ \cup {t.connection}]
    /\ Finish(t, Returned(t, Undefined))
    /\ UNCHANGED <<queryCache, config, now, nextHandle, left>>

\* DisconnectFail that removes the record although the close was rejected.
DisconnectFailDrops(t, e) ==
    /\ t.op = "disconnect" /\ t.pc = "closing"
    /\ connections' = Delete(connections, t.id)
    /\ Finish(t, Threw(t, DriverError(e)))
    /\ UNCHANGED <<queryCache, config, now, nextHandle, handleLog, left>>

\* close rejected: log and rethrow, the record stays.
DisconnectFail(t, e) ==
    /\ t.op = "disconnect" /\ t.pc = "closing"
    /\ Finish(t, Threw(t, DriverError(e)))
    /\ UNCHANGED <<connections, queryCache, config, now, nextHandle, handleLog, left>>

(***************************************************************************)
(* disconnectAll: disconnect(id) is called for every key of the registry,  *)
(* each call running to its await of close; the rejections are caught and  *)
(* logged; once all have settled the registry is cleared.                  *)
(***************************************************************************)
DisconnectAllCall ==
    /\ CanCall
    /\ LET all == [Idle EXCEPT !.op = "disconnectAll", !.pc = "draining",
                               !.group = left]
           each(id) == [Idle EXCEPT !.op = "disconnect", !.id = id,
                                    !.pc = "closing",
                                    !.type = connections[id].type,
                                    !.connection = connections[id].connection,
                                    !.group = left]
       IN  pending' = pending (+) SetToBag({all} \cup
                                           {each(id) : id \in DOMAIN connections})
    /\ left' = left - 1
    /\ UNCHANGED <<connections, queryCache, config, now, nextHandle, handleLog, last>>

\* DisconnectAllDone without this.connections.clear().
DisconnectAllDoneNoClear(t) ==
    /\ t.op = "disconnectAll" /\ t.pc = "draining"
    /\ \A u \in Pending : u.op = "disconnect" => u.group # t.group
    /\ Finish(t, Returned(t, Undefined))
    /\ UNCHANGED <<connections, queryCache, config, now, nextHandle, handleLog, left>>

\* await Promise.all(promises) is over: this.connections.clear()
DisconnectAllDone(t) ==
    /\ t.op = "disconnectAll" /\ t.pc = "draining"
    /\ \A u \in Pending : u.op = "disconnect" => u.group # t.group
    /\ connections' = << >>
    /\ Finish(t, Returned(t, Undefined))
    /\ UNCHANGED <<queryCache, config, now, nextHandle, handleLog, left>>

(***************************************************************************)
(* getConnectionInfo, listConnections                                      *)
(***************************************************************************)
Null == "null"
Redacted == "***"

\* getConnectionInfo that copies the stored config as it is.
GetConnectionInfoRaw(registry, connectionId) ==
    IF connectionId \notin DOMAIN registry
    THEN Null
    ELSE [id         |-> connectionId,
          type       |-> registry[connectionId].type,
          createdAt  |-> registry[connectionId].createdAt,
          lastUsed   |-> registry[connectionId].lastUsed,
          queryCount |-> registry[connectionId].queryCount,
          config     |-> registry[connectionId].config]

\* getConnectionInfo(connectionId) read off a registry:
\* config: { ...info.config, password: '***' }
GetConnectionInfoIn(registry, connectionId) ==
    IF connectionId \notin DOMAIN registry
    THEN Null
    ELSE [id         |-> connectionId,
          type       |-> registry[connectionId].type,
          createdAt  |-> registry[connectionId].createdAt,
          lastUsed   |-> registry[connectionId].lastUsed,
          queryCount |-> registry[connectionId].queryCount,
          config     |-> Set(registry[connectionId].config, "password", Redacted)]

\* listConnections() read off a registry; the array is kept as the set of its
\* elements (the order of the keys is not modelled).
ListConnectionsIn(registry) ==
    {GetConnectionInfoIn(registry, id) : id \in DOMAIN registry}

GetConnectionInfo(connectionId) ==
    /\ CanCall
    /\ Complete(Returned([Idle EXCEPT !.op = "getConnectionInfo", !.id = connectionId],
                         GetConnectionInfoIn(connections, connectionId)))
    /\ left' = left - 1
    /\ UNCHANGED <<connections, queryCache, config, now, nextHandle, handleLog>>

ListConnections ==
    /\ CanCall
    /\ Complete(Returned([Idle EXCEPT !.op = "listConnections"],
                         ListConnectionsIn(connections)))
    /\ left' = left - 1
    /\ UNCHANGED <<connections, queryCache, config, now, nextHandle, handleLog>>

(***************************************************************************)
(* executeWithRetry(fn, options) called directly, fn an operation that     *)
(* resolves or rejects as its environment decides.                         *)
(***************************************************************************)
ExecuteWithRetryCall(options) ==
    /\ CanCall
    /\ LET run == RetryStart(options)
           t == [Idle EXCEPT !.op = "executeWithRetry", !.options = options,
                             !.run = run]
       IN  IF run.pc = "thrown"
           THEN Complete(Threw(t, run.thrown))
           ELSE Suspend([t EXCEPT !.pc = "exec"])
    /\ left' = left - 1
    /\ UNCHANGED <<connections, queryCache, config, now, nextHandle, handleLog>>

\* fn resolved: return its value.
RetryFnOk(t, result) ==
    /\ t.op = "executeWithRetry" /\ t.pc = "exec"
    /\ Finish(t, Returned([t EXCEPT !.run = RetryOnSuccess(@, result)], result))
    /\ UNCHANGED <<connections, queryCache, config, now, nextHandle, handleLog, left>>

\* fn rejected: sleep before the next attempt, or throw.
RetryFnFail(t, e) ==
    /\ t.op = "executeWithRetry" /\ t.pc = "exec"
    /\ LET run == RetryOnFailure(t.run, DriverError(e), t.options)
       IN  IF run.pc = "thrown"
           THEN Finish(t, Threw([t EXCEPT !.run = run], run.thrown))
           ELSE Resume(t, [t EXCEPT !.run = run, !.pc = "sleep",
                                    !.wakeAt = now + t.run.delay])
    /\ UNCHANGED <<connections, queryCache, config, now, nextHandle, handleLog, left>>

\* The backoff timer fired.
RetryWake(t) ==
    /\ t.op = "executeWithRetry" /\ t.pc = "sleep"
    /\ now >= t.wakeAt
    /\ Resume(t, [t EXCEPT !.run = RetryOnWake(@, t.options), !.pc = "exec"])
    /\ UNCHANGED <<connections, queryCache, config, now, nextHandle, handleLog, left>>

\* Nothing is runnable before the earliest timer: time passes until it is due.
TimerElapse(t) ==
    /\ t.pc = "sleep"
    /\ now < t.wakeAt
    /\ \A u \in Pending : u.pc = "sleep" /\ t.wakeAt <= u.wakeAt
    /\ now' = t.wakeAt
    /\ UNCHANGED <<connections, queryCache, config, nextHandle, handleLog, pending, last, left>>

\* ClearCache that empties nothing.
ClearCacheKeeps ==
    /\ CanCall
    /\ Complete(Returned([Idle EXCEPT !.op = "clearCache"], Undefined))
    /\ left' = left - 1
    /\ UNCHANGED <<connections, queryCache, config, now, nextHandle, handleLog>>

\* Time passes until the earliest backoff timer not yet due is due, whatever
\* the other calls are waiting for.
TimerDue(t) ==
    /\ t.pc = "sleep"
    /\ now < t.wakeAt
    /\ \A u \in Pending : (u.pc = "sleep" /\ now < u.wakeAt) => t.wakeAt <= u.wakeAt
    /\ now' = t.wakeAt
    /\ UNCHANGED <<connections, queryCache, config, nextHandle, handleLog, pending, last, left>>

\* clearCache(): synchronous, empties the cache when there is one.
ClearCache ==
    /\ CanCall
    /\ queryCache' = IF cacheEnabled THEN << >> ELSE queryCache
    /\ Complete(Returned([Idle EXCEPT !.op = "clearCache"], Undefined))
    /\ left' = left - 1
    /\ UNCHANGED <<connections, config, now, nextHandle, handleLog>>

Tick ==
    /\ now < MaxTime
    /\ now' = now + 1
    /\ UNCHANGED <<connections, queryCache, config, nextHandle, handleLog, pending, last, left>>

(***************************************************************************)
(* Spec: the registry.  connect and disconnect calls of two callers on     *)
(* two ids, with supported and unsupported types.                          *)
(***************************************************************************)
Next ==
    \/ \E id \in Ids, type \in TypesIn : ConnectCall(id, type)
    \/ \E t \in Pending : ConnectOk(t)
    \/ \E t \in Pending, e \in Errors : ConnectFail(t, e)
    \/ \E id \in Ids : DisconnectCall(id)
    \/ \E t \in Pending : DisconnectOk(t)
    \/ \E t \in Pending, e \in Errors : DisconnectFail(t, e)
    \/ Tick

Spec == Init /\ [][Next]_vars

(***************************************************************************)
(* SpecQuery: queries with the cache and the retry executor, on one id.    *)
(***************************************************************************)
InitQuery ==
    /\ Constructor([enableCache |-> TRUE, cacheTimeout |-> 2,
                    maxConnections |-> 1, retries |-> 1, retryFactor |-> 2,
                    minRetryTimeout |-> 1, maxRetryTimeout |-> 2])
    /\ now = 0
    /\ nextHandle = 1
    /\ handleLog = NoHandleLog
    /\ pending = EmptyBag
    /\ last = Idle
    /\ left = MaxCalls

\* The caller awaits each call before making the next one.
Sequential == pending = EmptyBag

NextQuery ==
    \/ Sequential /\ ConnectCall("a", "sqlite")
    \/ \E t \in Pending : ConnectOk(t)
    \/ Sequential /\ \E q \in Queries, c \in BOOLEAN : QueryCall("a", q, c)
    \/ \E t \in Pending, r \in Results : QueryOk(t, r)
    \/ \E t \in Pending, e \in Errors : QueryFail(t, e)
    \/ \E t \in Pending : QueryWake(t)
    \/ Sequential /\ DisconnectCall("a")
    \/ \E t \in Pending : DisconnectOk(t)
    \/ Sequential /\ ClearCache
    \/ Tick

SpecQuery == InitQuery /\ [][NextQuery]_vars

(***************************************************************************)
(* SpecRetry: the retry executor alone: one run of executeWithRetry per     *)
(* behaviour, over a range of retry policies and of operations.            *)
(***************************************************************************)
Policies ==
    [retries : 0..MaxRetries, factor : 1..2,
     minTimeout : 1..MaxTimeout, maxTimeout : 1..MaxTimeout]

InitRetry ==
    /\ Constructor([enableCache |-> FALSE, cacheTimeout |-> 0, maxConnections |-> 0,
                    retries |-> 0, retryFactor |-> 0, minRetryTimeout |-> 0,
                    maxRetryTimeout |-> 0])
    /\ now = 0
    /\ nextHandle = 1
    /\ handleLog = NoHandleLog
    /\ pending = EmptyBag
    /\ last = Idle
    /\ left = 1

NextRetry ==
    \/ \E options \in Policies : ExecuteWithRetryCall(options)
    \/ \E t \in Pending, r \in Results : RetryFnOk(t, r)
    \/ \E t \in Pending, e \in Errors : RetryFnFail(t, e)
    \/ \E t \in Pending : RetryWake(t)
    \/ \E t \in Pending : TimerElapse(t)

SpecRetry == InitRetry /\ [][NextRetry]_vars

(***************************************************************************)
(* SpecDrain: disconnectAll, overlapping with connect and disconnect.      *)
(***************************************************************************)
InitDrain ==
    /\ Constructor([enableCache |-> FALSE, cacheTimeout |-> 1, maxConnections |-> 2,
                    retries |-> 1, retryFactor |-> 2, minRetryTimeout |-> 1,
                    maxRetryTimeout |-> 2])
    /\ now = 0
    /\ nextHandle = 1
    /\ handleLog = NoHandleLog
    /\ pending = EmptyBag
    /\ last = Idle
    /\ left = MaxCalls

NextDrain ==
    \/ \E id \in Ids : ConnectCall(id, "sqlite")
    \/ \E t \in Pending : ConnectOk(t)
    \/ \E id \in Ids : DisconnectCall(id)
    \/ \E t \in Pending : DisconnectOk(t)
    \/ \E t \in Pending : DisconnectFail(t, "e1")
    \/ DisconnectAllCall
    \/ \E t \in Pending : DisconnectAllDone(t)

SpecDrain == InitDrain /\ [][NextDrain]_vars

(***************************************************************************)
(* SpecInfo: connections made with and without a password, read back       *)
(* through getConnectionInfo and listConnections.                          *)
(***************************************************************************)
Passwords == {"p1", "p2"}
Configs ==
    {NoConfig, [host |-> "h"]}
        \cup {[password |-> p] : p \in Passwords}
        \cup {[host |-> "h", password |-> p] : p \in Passwords}

InitInfo ==
    /\ Constructor([enableCache |-> FALSE, cacheTimeout |-> 1, maxConnections |-> 2,
                    retries |-> 1, retryFactor |-> 2, minRetryTimeout |-> 1,
                    maxRetryTimeout |-> 2])
    /\ now = 0
    /\ nextHandle = 1
    /\ handleLog = NoHandleLog
    /\ pending = EmptyBag
    /\ last = Idle
    /\ left = MaxCalls

NextInfo ==
    \/ Sequential /\ \E id \in Ids, options \in Configs : Connect(id, "sqlite", options)
    \/ \E t \in Pending : ConnectOk(t)
    \/ \E id \in Ids : GetConnectionInfo(id)
    \/ ListConnections

SpecInfo == InitInfo /\ [][NextInfo]_vars

(***************************************************************************)
(* SpecSleep: queries of two callers on two connections, with failures     *)
(* and backoff sleeps, overlapping with connect and disconnect.            *)
(***************************************************************************)
InitSleep ==
    /\ Constructor([enableCache |-> FALSE, cacheTimeout |-> 1, maxConnections |-> 2,
                    retries |-> 1, retryFactor |-> 1, minRetryTimeout |-> 2,
                    maxRetryTimeout |-> 2])
    /\ now = 0
    /\ nextHandle = 1
    /\ handleLog = NoHandleLog
    /\ pending = EmptyBag
    /\ last = Idle
    /\ left = MaxCalls

NextSleep ==
    \/ \E id \in Ids : ConnectCall(id, "sqlite")
    \/ \E t \in Pending : ConnectOk(t)
    \/ \E id \in Ids : QueryCall(id, "SELECT 1", TRUE)
    \/ \E t \in Pending : QueryOk(t, "r1")
    \/ \E t \in Pending : QueryFail(t, "e1")
    \/ \E t \in Pending : QueryWake(t)
    \/ \E id \in Ids : DisconnectCall(id)
    \/ \E t \in Pending : DisconnectOk(t)
    \/ Tick

SpecSleep == InitSleep /\ [][NextSleep]_vars

(***************************************************************************)
(* JavaScript strings, as far as querySQLite uses them.                    *)
(***************************************************************************)
Whitespace == {" ", "\t", "\n"}
LowerCase == "abcdefghijklmnopqrstuvwxyz"
UpperCase == "ABCDEFGHIJKLMNOPQRSTUVWXYZ"

CharAt(s, i) == SubSeq(s, i, i)

\* String.prototype.trim
RECURSIVE TrimStart(_)
TrimStart(s) ==
    IF Len(s) > 0 /\ CharAt(s, 1) \in Whitespace
    THEN TrimStart(SubSeq(s, 2, Len(s)))
    ELSE s

RECURSIVE TrimEnd(_)
TrimEnd(s) ==
    IF Len(s) > 0 /\ CharAt(s, Len(s)) \in Whitespace
    THEN TrimEnd(SubSeq(s, 1, Len(s) - 1))
    ELSE s

Trim(s) == TrimEnd(TrimStart(s))

\* String.prototype.toUpperCase
ToUpperChar(c) ==
    IF \E i \in 1..Len(LowerCase) : CharAt(LowerCase, i) = c
    THEN CharAt(UpperCase, CHOOSE i \in 1..Len(LowerCase) : CharAt(LowerCase, i) = c)
    ELSE c

RECURSIVE ToUpperCase(_)
ToUpperCase(s) ==
    IF Len(s) = 0 THEN s
    ELSE ToUpperChar(CharAt(s, 1)) \o ToUpperCase(SubSeq(s, 2, Len(s)))

\* String.prototype.startsWith
StartsWith(s, prefix) ==
    Len(s) >= Len(prefix) /\ SubSeq(s, 1, Len(prefix)) = prefix

(***************************************************************************)
(* The backend adapters.  A query is a record: a text query has the field  *)
(* text, a document-store request the fields it was given.  An adapter     *)
(* is described by what it does up to its await: the calls it makes on the *)
(* driver's handle, in order, the error it throws if it throws, and the    *)
(* shape of the value it resolves with when the driver answers.            *)
(***************************************************************************)
Text(s) == [text |-> s]
DriverCall(method, arg) == [method |-> method, arg |-> arg]

\* query.name, undefined when the query has no such property.
Property(query, name) == IF name \in DOMAIN query THEN query[name] ELSE Undefined
\* !value for a string or undefined
Not(value) == value = Undefined \/ value = ""

NotAFunctionError == <<"query.trim is not a function">>
MalformedRequestError == <<"MongoDB query must specify collection and operation">>
UnsupportedOperationError(operation) == <<"Unsupported MongoDB operation: ", operation>>

\* Values an adapter resolves with: an Array of rows, the object querySQLite
\* builds from db.run, or whatever object the driver's operation returns.
Rows(items) == [array |-> TRUE, items |-> items]
RunResult(changes, lastID) == [array |-> FALSE, changes |-> changes, lastID |-> lastID]
DriverResult(r) == [array |-> FALSE, result |-> r]

Answers(shape) ==
    CASE shape = "rows" -> {Rows(<< >>), Rows(<<"row1">>)}
      [] shape = "changes" -> {RunResult(0, 0), RunResult(1, 42)}
      [] shape = "driver" -> {DriverResult("d1")}
      [] OTHER -> {}

\* querySQLite that compares the prefix as the text is written.
QuerySQLiteCaseSensitive(query) ==
    IF "text" \notin DOMAIN query
    THEN [calls |-> << >>, thrown |-> NotAFunctionError, shape |-> "none"]
    ELSE IF StartsWith(Trim(query.text), "SELECT")
    THEN [calls |-> <<DriverCall("db.all", query.text)>>, thrown |-> NoError,
          shape |-> "rows"]
    ELSE [calls |-> <<DriverCall("db.run", query.text)>>, thrown |-> NoError,
          shape |-> "changes"]

QuerySQLite(query) ==
    IF "text" \notin DOMAIN query
    THEN [calls |-> << >>, thrown |-> NotAFunctionError, shape |-> "none"]
    ELSE IF StartsWith(ToUpperCase(Trim(query.text)), "SELECT")
    THEN [calls |-> <<DriverCall("db.all", query.text)>>, thrown |-> NoError,
          shape |-> "rows"]
    ELSE [calls |-> <<DriverCall("db.run", query.text)>>, thrown |-> NoError,
          shape |-> "changes"]

QueryMySQL(query) ==
    [calls |-> <<DriverCall("connection.execute", Property(query, "text"))>>,
     thrown |-> NoError, shape |-> "rows"]

QueryPostgres(query) ==
    [calls |-> <<DriverCall("client.query", Property(query, "text"))>>,
     thrown |-> NoError, shape |-> "rows"]

CursorOperations == {"find", "aggregate"}
MongoOperations ==
    CursorOperations \cup {"findOne", "insertOne", "insertMany", "updateOne",
                           "updateMany", "deleteOne", "deleteMany"}

\* What queryMongoDB does once it holds the collection handle.
Dispatch(collection, operation) ==
    IF operation \in CursorOperations
    THEN [calls |-> <<DriverCall("coll." \o operation, collection),
                      DriverCall("cursor.toArray", collection)>>,
          thrown |-> NoError, shape |-> "rows"]
    ELSE IF operation \in MongoOperations
    THEN [calls |-> <<DriverCall("coll." \o operation, collection)>>,
          thrown |-> NoError, shape |-> "driver"]
    ELSE [calls |-> << >>, thrown |-> UnsupportedOperationError(operation),
          shape |-> "none"]

\* queryMongoDB that obtains the collection handle before it validates the request.
QueryMongoDBCollectionFirst(query) ==
    LET collection == Property(query, "collection")
        operation == Property(query, "operation")
        coll == <<DriverCall("db.collection", collection)>>
        rest == Dispatch(collection, operation)
    IN  IF Not(collection) \/ Not(operation)
        THEN [calls |-> coll, thrown |-> MalformedRequestError, shape |-> "none"]
        ELSE [rest EXCEPT !.calls = coll \o @]

\* queryMongoDB that obtains the collection handle inside each case of the switch.
QueryMongoDBCollectionInCase(query) ==
    LET collection == Property(query, "collection")
        operation == Property(query, "operation")
        coll == <<DriverCall("db.collection", collection)>>
        rest == Dispatch(collection, operation)
    IN  IF Not(collection) \/ Not(operation)
        THEN [calls |-> << >>, thrown |-> MalformedRequestError, shape |-> "none"]
        ELSE IF rest.thrown # NoError THEN rest
        ELSE [rest EXCEPT !.calls = coll \o @]

QueryMongoDB(query) ==
    LET collection == Property(query, "collection")
        operation == Property(query, "operation")
        coll == <<DriverCall("db.collection", collection)>>
        rest == Dispatch(collection, operation)
    IN  IF Not(collection) \/ Not(operation)
        THEN [calls |-> << >>, thrown |-> MalformedRequestError, shape |-> "none"]
        ELSE [rest EXCEPT !.calls = coll \o @]

ExecuteQuery(type, query) ==
    CASE type = "sqlite" -> QuerySQLite(query)
      [] type = "mysql" -> QueryMySQL(query)
      [] type = "postgres" -> QueryPostgres(query)
      [] type = "mongodb" -> QueryMongoDB(query)
      [] OTHER -> [calls |-> << >>, thrown |-> UnsupportedTypeError(type),
                   shape |-> "none"]

\* An adapter method called directly on a driver handle, up to its await.
AdapterCall(method, type, query) ==
    /\ CanCall
    /\ LET plan == ExecuteQuery(type, query)
           t == [Idle EXCEPT !.op = method, !.type = type, !.query = query,
                             !.backend = plan.calls]
       IN  IF plan.thrown # NoError
           THEN Complete(Threw(t, plan.thrown))
           ELSE Suspend([t EXCEPT !.pc = "driver"])
    /\ left' = left - 1
    /\ UNCHANGED <<connections, queryCache, config, now, nextHandle, handleLog>>

QuerySQLiteCall(query) == AdapterCall("querySQLite", "sqlite", query)
QueryMongoDBCall(query) == AdapterCall("queryMongoDB", "mongodb", query)

\* The driver answers: the adapter resolves with a value of its shape.
DriverResolves(t, answer) ==
    /\ t.pc = "driver"
    /\ answer \in Answers(ExecuteQuery(t.type, t.query).shape)
    /\ Finish(t, Returned(t, answer))
    /\ UNCHANGED <<connections, queryCache, config, now, nextHandle, handleLog, left>>

\* The driver fails: the adapter rejects with the driver's error.
DriverRejects(t, e) ==
    /\ t.pc = "driver"
    /\ Finish(t, Threw(t, DriverError(e)))
    /\ UNCHANGED <<connections, queryCache, config, now, nextHandle, handleLog, left>>

(***************************************************************************)
(* getTables and getTableSchema                                            *)
(***************************************************************************)
NotImplementedError(method, type) == <<method, " not implemented for ", type>>

\* The canned request of getTables, per backend kind.
TablesQuery(type) ==
    CASE type = "sqlite" ->
           Text("SELECT name FROM sqlite_master WHERE type='table' AND name NOT LIKE 'sqlite_%'")
      [] type = "mysql" -> Text("SHOW TABLES")
      [] type = "postgres" ->
           Text("SELECT tablename FROM pg_tables WHERE schemaname = 'public'")

\* The canned request of getTableSchema, per backend kind.
SchemaQuery(type, tableName) ==
    CASE type = "sqlite" -> Text("PRAGMA table_info(" \o tableName \o ")")
      [] type = "mysql" -> Text("DESCRIBE " \o tableName)
      [] type = "postgres" ->
           [text |-> "SELECT column_name, data_type, is_nullable FROM information_schema.columns WHERE table_name = $1",
            params |-> <<tableName>>]
      [] type = "mongodb" ->
           [collection |-> tableName, operation |-> "find", options |-> [limit |-> 1]]

\* return this.query(connectionId, request) with every request sent past the cache.
DelegatedQueryUncached(via, id, query) ==
    LET t == [Idle EXCEPT !.op = "query", !.via = via, !.id = id, !.query = query,
                          !.cache = FALSE]
    IN  \/ QueryNotFound(t)
        \/ QueryCacheHit(t)
        \/ QueryExecute(t)

\* return this.query(connectionId, request): a query call like any other.
DelegatedQuery(via, id, query) ==
    LET t == [Idle EXCEPT !.op = "query", !.via = via, !.id = id, !.query = query,
                          !.cache = TRUE]
    IN  \/ QueryNotFound(t)
        \/ QueryCacheHit(t)
        \/ QueryExecute(t)

\* getTables(connectionId) up to its first await.
GetTablesCall(id) ==
    /\ CanCall
    /\ LET t == [Idle EXCEPT !.op = "getTables", !.id = id]
       IN  IF id \notin DOMAIN connections
           THEN /\ Complete(Threw(t, NotFoundError(id)))
                /\ UNCHANGED <<connections, queryCache>>
           ELSE IF connections[id].type \in {"sqlite", "mysql", "postgres"}
           THEN DelegatedQuery("getTables", id, TablesQuery(connections[id].type))
           ELSE IF connections[id].type = "mongodb"
           THEN /\ Suspend([t EXCEPT !.type = "mongodb",
                                     !.connection = connections[id].connection,
                                     !.pc = "listing",
                                     !.backend = <<DriverCall("db.listCollections", ""),
                                                   DriverCall("cursor.toArray", "")>>])
                /\ UNCHANGED <<connections, queryCache>>
           ELSE /\ Complete(Threw(t, NotImplementedError("getTables", connections[id].type)))
                /\ UNCHANGED <<connections, queryCache>>
    /\ left' = left - 1
    /\ UNCHANGED <<config, now, nextHandle, handleLog>>

\* db.listCollections().toArray() resolved.
ListCollectionsOk(t, names) ==
    /\ t.op = "getTables" /\ t.pc = "listing"
    /\ Finish(t, Returned(t, Rows(names)))
    /\ UNCHANGED <<connections, queryCache, config, now, nextHandle, handleLog, left>>

\* db.listCollections().toArray() rejected.
ListCollectionsFail(t, e) ==
    /\ t.op = "getTables" /\ t.pc = "listing"
    /\ Finish(t, Threw(t, DriverError(e)))
    /\ UNCHANGED <<connections, queryCache, config, now, nextHandle, handleLog, left>>

\* getTableSchema(connectionId, tableName) up to its first await.
GetTableSchemaCall(id, tableName) ==
    /\ CanCall
    /\ LET t == [Idle EXCEPT !.op = "getTableSchema", !.id = id]
       IN  IF id \notin DOMAIN connections
           THEN /\ Complete(Threw(t, NotFoundError(id)))
                /\ UNCHANGED <<connections, queryCache>>
           ELSE IF connections[id].type \in SupportedTypes
           THEN DelegatedQuery("getTableSchema", id,
                               SchemaQuery(connections[id].type, tableName))
           ELSE /\ Complete(Threw(t, NotImplementedError("getTableSchema",
                                                         connections[id].type)))
                /\ UNCHANGED <<connections, queryCache>>
    /\ left' = left - 1
    /\ UNCHANGED <<config, now, nextHandle, handleLog>>

\* executeQuery's adapter resolved with a value of the shape its branch gives.
AdapterResolves(t, answer) ==
    /\ answer \in Answers(ExecuteQuery(t.type, t.query).shape)
    /\ QueryOk(t, answer)

\* AdapterThrows with validation errors passed to the caller without retry.
AdapterThrowsAtOnce(t) ==
    /\ t.op = "query" /\ t.pc = "exec"
    /\ LET thrown == ExecuteQuery(t.type, t.query).thrown
           run == [t.run EXCEPT !.lastError = thrown,
                                !.events = Append(@, FailEvent(t.run.i, thrown)),
                                !.pc = "thrown", !.thrown = thrown]
       IN  /\ thrown # NoError
           /\ Finish(t, Threw([t EXCEPT !.run = run], run.thrown))
    /\ UNCHANGED <<connections, queryCache, config, now, nextHandle, handleLog, left>>

\* executeQuery's adapter threw before it reached the driver: fn() rejects, and
\* executeWithRetry's catch handles the error as it handles any other.
AdapterThrows(t) ==
    /\ t.op = "query" /\ t.pc = "exec"
    /\ LET thrown == ExecuteQuery(t.type, t.query).thrown
           run == RetryOnFailure(t.run, thrown, t.options)
       IN  /\ thrown # NoError
           /\ IF run.pc = "thrown"
              THEN Finish(t, Threw([t EXCEPT !.run = run], run.thrown))
              ELSE Resume(t, [t EXCEPT !.run = run, !.pc = "sleep",
                                       !.wakeAt = now + t.run.delay])
    /\ UNCHANGED <<connections, queryCache, config, now, nextHandle, handleLog, left>>

\* The driver rejects a request that the adapter passed on to it.
AdapterRejects(t, e) ==
    /\ t.op = "query" /\ t.pc = "exec"
    /\ ExecuteQuery(t.type, t.query).thrown = NoError
    /\ QueryFail(t, e)

(***************************************************************************)
(* SpecValidation: one caller sends well-formed, malformed and unsupported *)
(* requests to a document-store connection; MaxRetries retries.            *)
(***************************************************************************)
InitValidation ==
    /\ Constructor([enableCache |-> TRUE, cacheTimeout |-> 2, maxConnections |-> 1,
                    retries |-> MaxRetries, retryFactor |-> 1, minRetryTimeout |-> 1,
                    maxRetryTimeout |-> 1])
    /\ now = 0
    /\ nextHandle = 1
    /\ handleLog = NoHandleLog
    /\ pending = EmptyBag
    /\ last = Idle
    /\ left = MaxCalls - 1

NextValidation ==
    \/ Sequential /\ ConnectCall("a", "mongodb")
    \/ \E t \in Pending : ConnectOk(t)
    \/ Sequential /\
           \E query \in {[collection |-> "users", operation |-> "find"],
                         [collection |-> "users", operation |-> "unknownOp"],
                         [collection |-> "users"], [operation |-> "find"]} :
               \E c \in BOOLEAN : QueryCall("a", query, c)
    \/ \E t \in Executing :
           \E answer \in Answers(ExecuteQuery(t.type, t.query).shape) :
               AdapterResolves(t, answer)
    \/ \E t \in Executing : AdapterRejects(t, "e1")
    \/ \E t \in Executing : AdapterThrows(t)
    \/ \E t \in Pending : QueryWake(t)
    \/ Tick

SpecValidation == InitValidation /\ [][NextValidation]_vars

(***************************************************************************)
(* SpecSchema: one caller connects one id to a backend of any kind and     *)
(* introspects it.                                                         *)
(***************************************************************************)
InitSchema ==
    /\ Constructor([enableCache |-> TRUE, cacheTimeout |-> 2, maxConnections |-> 1,
                    retries |-> 1, retryFactor |-> 1, minRetryTimeout |-> 1,
                    maxRetryTimeout |-> 1])
    /\ now = 0
    /\ nextHandle = 1
    /\ handleLog = NoHandleLog
    /\ pending = EmptyBag
    /\ last = Idle
    /\ left = MaxCalls - 1

NextSchema ==
    \/ Sequential /\ \E type \in SupportedTypes : ConnectCall("a", type)
    \/ \E t \in Pending : ConnectOk(t)
    \/ Sequential /\ \E id \in Ids : GetTablesCall(id)
    \/ Sequential /\ \E id \in Ids : GetTableSchemaCall(id, "users")
    \/ \E t \in Executing :
           \E answer \in Answers(ExecuteQuery(t.type, t.query).shape) :
               AdapterResolves(t, answer)
    \/ \E t \in Pending : QueryFail(t, "e1")
    \/ \E t \in Pending : QueryWake(t)
    \/ \E t \in Pending : ListCollectionsOk(t, <<"users">>)
    \/ \E t \in Pending : ListCollectionsFail(t, "e1")
    \/ Tick

SpecSchema == InitSchema /\ [][NextSchema]_vars

(***************************************************************************)
(* generateConnectionId                                                    *)
(***************************************************************************)
\* String.prototype.substr(start, length)
Substr(s, start, length) == SubSeq(s, start + 1, Min(Len(s), start + length))

\* `${type}-${Date.now()}-${Math.random().toString(36).substr(2, 9)}`, where
\* base36 is Math.random().toString(36): "0" for 0, "0." and digits otherwise.
GenerateConnectionId(type, base36) ==
    type \o "-" \o ToString(now) \o "-" \o Substr(base36, 2, 9)

\* connect({type}): no id supplied, one is generated.
ConnectGenerated(type, base36) ==
    Connect(GenerateConnectionId(type, base36), type, NoConfig)

(***************************************************************************)
(* SpecIds: connects with generated ids and with supplied ones; the        *)
(* draws of Math.random() are arbitrary, 0 included.                       *)
(***************************************************************************)
RandomDraws == {"0", "0.k", "0.4fzyo82mvq7"}

InitIds ==
    /\ Constructor([maxConnections |-> 2, retries |-> 1])
    /\ now = 0
    /\ nextHandle = 1
    /\ handleLog = NoHandleLog
    /\ pending = EmptyBag
    /\ last = Idle
    /\ left = MaxCalls

NextIds ==
    \/ \E base36 \in RandomDraws : ConnectGenerated("sqlite", base36)
    \/ ConnectCall("a", "sqlite")
    \/ \E t \in Pending : ConnectOk(t)
    \/ \E t \in Pending : ConnectFail(t, "e1")
    \/ Sequential /\ \E id \in DOMAIN connections : DisconnectCall(id)
    \/ \E t \in Pending : DisconnectOk(t)
    \/ Tick

SpecIds == InitIds /\ [][NextIds]_vars

(***************************************************************************)
(* SpecKey: one caller repeats one parameterized query with various        *)
(* params, on a backend that answers SELECT ? with the bound parameters.   *)
(***************************************************************************)
ParamsIn ==
    {<<v>> : v \in {JsNull, JsUndefined, JsNumber(1), JsString("1")}}
        \cup {NoParams, <<JsNumber(1), JsNumber(1)>>, <<JsString("1,1")>>}

\* The adapter resolved with the one row of the bound parameters.
BackendEchoes(t) == QueryOk(t, Rows(t.params))

InitKey ==
    /\ Constructor([enableCache |-> TRUE, cacheTimeout |-> 2, maxConnections |-> 1,
                    retries |-> 1])
    /\ now = 0
    /\ nextHandle = 1
    /\ handleLog = NoHandleLog
    /\ pending = EmptyBag
    /\ last = Idle
    /\ left = MaxCalls

NextKey ==
    \/ Sequential /\ ConnectCall("a", "sqlite")
    \/ \E t \in Pending : ConnectOk(t)
    \/ Sequential /\ \E params \in ParamsIn : Query("a", "SELECT ?", params, TRUE)
    \/ \E t \in Pending : BackendEchoes(t)
    \/ Tick

SpecKey == InitKey /\ [][NextKey]_vars

(***************************************************************************)
(* SpecReconnect: one caller connects, queries, disconnects (the close may *)
(* fail) and connects again, with the cache on and room for one            *)
(* connection.                                                             *)
(***************************************************************************)
InitReconnect ==
    /\ Constructor([enableCache |-> TRUE, cacheTimeout |-> 2, maxConnections |-> 1,
                    retries |-> 1])
    /\ now = 0
    /\ nextHandle = 1
    /\ handleLog = NoHandleLog
    /\ pending = EmptyBag
    /\ last = Idle
    /\ left = MaxCalls + 1

NextReconnect ==
    \/ Sequential /\ \E id \in Ids : ConnectCall(id, "sqlite")
    \/ \E t \in Pending : ConnectOk(t)
    \/ Sequential /\ QueryCall("a", "SELECT 1", TRUE)
    \/ \E t \in Pending, r \in Results : QueryOk(t, r)
    \/ Sequential /\ DisconnectCall("a")
    \/ \E t \in Pending : DisconnectOk(t)
    \/ \E t \in Pending : DisconnectFail(t, "e1")
    \/ Sequential /\ DisconnectAllCall
    \/ \E t \in Pending : DisconnectAllDone(t)
    \/ Tick

SpecReconnect == InitReconnect /\ [][NextReconnect]_vars

(***************************************************************************)
(* SpecOverlap: two callers issue queries, the same one or not, on one     *)
(* connection with the cache on; calls overlap and the backend's answers   *)
(* differ.                                                                 *)
(***************************************************************************)
InitOverlap ==
    /\ Constructor([enableCache |-> TRUE, cacheTimeout |-> 2, maxConnections |-> 1,
                    retries |-> 1])
    /\ now = 0
    /\ nextHandle = 1
    /\ handleLog = NoHandleLog
    /\ pending = EmptyBag
    /\ last = Idle
    /\ left = MaxCalls

NextOverlap ==
    \/ Sequential /\ ConnectCall("a", "sqlite")
    \/ \E t \in Pending : ConnectOk(t)
    \/ \E q \in Queries : QueryCall("a", q, TRUE)
    \/ \E t \in Pending, r \in Results : QueryOk(t, r)
    \/ Tick

SpecOverlap == InitOverlap /\ [][NextOverlap]_vars

(***************************************************************************)
(* SpecAdapter: the sqlite and the mongodb adapter called directly, on a   *)
(* family of texts and of requests.                                        *)
(***************************************************************************)
Texts ==
    LET Pads == {"", " ", "\n\t "}
        Keywords == {"SELECT", "select", "SeLeCt", "SELEC", "SELECTED", "INSERT",
                     "PRAGMA", "INSERT INTO t SELECT", "WITH", ""}
        Tails == {"", " 1 "}
    IN  {Text(p \o k \o r) : p \in Pads, k \in Keywords, r \in Tails}

Requests ==
    LET CollectionsIn == {"users", ""}
        OperationsIn == MongoOperations \cup {"unknownOp", ""}
    IN  {[collection |-> c, operation |-> o] : c \in CollectionsIn, o \in OperationsIn}
            \cup {[collection |-> c] : c \in CollectionsIn}
            \cup {[operation |-> o] : o \in OperationsIn}
            \cup {Text("SELECT 1")}

InitAdapter ==
    /\ Constructor(<< >>)
    /\ now = 0
    /\ nextHandle = 1
    /\ handleLog = NoHandleLog
    /\ pending = EmptyBag
    /\ last = Idle
    /\ left = 2

NextAdapter ==
    \/ \E query \in Texts : QuerySQLiteCall(query)
    \/ \E query \in Requests : QueryMongoDBCall(query)
    \/ \E t \in Pending : \E answer \in Answers(ExecuteQuery(t.type, t.query).shape) :
           DriverResolves(t, answer)
    \/ \E t \in Pending : DriverRejects(t, "e1")

SpecAdapter == InitAdapter /\ [][NextAdapter]_vars

(***************************************************************************)
(* SpecCancel: queries on one connection while the other caller            *)
(* disconnects it or clears the cache.  Every adapter call returns or      *)
(* fails, and every timer fires.                                           *)
(***************************************************************************)
InitCancel ==
    /\ Constructor([enableCache |-> TRUE, cacheTimeout |-> 2, maxConnections |-> 1,
                    retries |-> 1, retryFactor |-> 1, minRetryTimeout |-> 2,
                    maxRetryTimeout |-> 2])
    /\ now = 0
    /\ nextHandle = 1
    /\ handleLog = NoHandleLog
    /\ pending = EmptyBag
    /\ last = Idle
    /\ left = MaxCalls

AdapterReturns == \E t \in Pending : QueryOk(t, "r1") \/ QueryFail(t, "e1")
TimerFires == \E t \in Pending : QueryWake(t)
TimePasses == \E t \in Pending : TimerDue(t)

NextCancel ==
    \/ ConnectCall("a", "sqlite")
    \/ \E t \in Pending : ConnectOk(t)
    \/ QueryCall("a", "SELECT 1", TRUE)
    \/ AdapterReturns
    \/ TimerFires
    \/ TimePasses
    \/ DisconnectCall("a")
    \/ \E t \in Pending : DisconnectOk(t)
    \/ DisconnectAllCall
    \/ \E t \in Pending : DisconnectAllDone(t)
    \/ ClearCache
    \/ Tick

SpecCancel ==
    /\ InitCancel /\ [][NextCancel]_vars
    /\ WF_vars(AdapterReturns)
    /\ WF_vars(TimerFires)
    /\ WF_vars(TimePasses)

(***************************************************************************)
(* SpecOptions: readers constructed with some options supplied, 0          *)
(* included, and the others left out; one caller connects and queries.     *)
(***************************************************************************)
MaxOption == 2
OptionsIn ==
    UNION {[S -> 0..MaxOption] : S \in SUBSET {"retries", "maxConnections", "cacheTimeout"}}

InitOptions ==
    /\ \E options \in OptionsIn : Constructor(options @@ [enableCache |-> TRUE])
    /\ now = 0
    /\ nextHandle = 1
    /\ handleLog = NoHandleLog
    /\ pending = EmptyBag
    /\ last = Idle
    /\ left = MaxCalls

NextOptions ==
    \/ Sequential /\ \E id \in Ids : ConnectCall(id, "sqlite")
    \/ \E t \in Pending : ConnectOk(t)
    \/ Sequential /\ QueryCall("a", "SELECT 1", TRUE)
    \/ \E t \in Pending : QueryOk(t, "r1")
    \/ \E t \in Pending : QueryFail(t, "e1")
    \/ \E t \in Pending : QueryWake(t)
    \/ \E t \in Pending : TimerDue(t)
    \/ Tick

SpecOptions == InitOptions /\ [][NextOptions]_vars

(***************************************************************************)
(* Reading a step.                                                         *)
(***************************************************************************)
\* A call is made in this step.
CallStep == left' = left - 1

\* The call made in this step is over within the step; last' is its outcome.
CompletedAtCall == CallStep /\ pending' = pending

\* The call made in this step is suspended at its first await, as NewTask.
SuspendedAtCall == CallStep /\ pending' # pending
NewTask == CHOOSE t \in BagToSet(pending') : pending' = pending (+) SetToBag({t})

\* A suspended call, FinishedTask, is over in this step; last' is its outcome.
FinishStep == left' = left /\ BagCardinality(pending') < BagCardinality(pending)
FinishedTask == CHOOSE t \in Pending : pending' = pending (-) SetToBag({t})

\* A driver handed out a handle in this step: a handshake succeeded.
HandshakeSucceeded == nextHandle' = nextHandle + 1

AllTasks == Pending \cup {last}

(***************************************************************************)
(* C1.  In every reachable state, also with several connect calls          *)
(* suspended in their handshakes, the registry holds at most               *)
(* maxConnections records.                                                 *)
(* Violated: the limit is checked before the handshake and the record is   *)
(* stored after it, so two connects that both pass the check both store.   *)
(***************************************************************************)
C1_RegistryWithinLimit == Size(connections) <= maxConnections

(***************************************************************************)
(* C2.  connect fails with the capacity error exactly when the registry    *)
(* size at call time has reached maxConnections, and then attempts no      *)
(* handshake and leaves the registry alone; a connect called at size       *)
(* maxConnections - 1 with a supported type whose handshake succeeds       *)
(* returns its id and stores its record.                                   *)
(***************************************************************************)
ConnectCallStep ==
    \/ CompletedAtCall /\ last'.op = "connect"
    \/ SuspendedAtCall /\ NewTask.op = "connect"

\* The capacity error exactly at capacity, with no handshake and no change.
C2_CapacityRule ==
    ConnectCallStep =>
        IF Size(connections) >= maxConnections
        THEN /\ CompletedAtCall
             /\ last'.status = "error"
             /\ last'.error = CapacityError(maxConnections)
             /\ UNCHANGED <<connections, nextHandle>>
        ELSE ~(CompletedAtCall /\ last'.error = CapacityError(maxConnections))

\* The connect whose handshake succeeds in this step was called at size max - 1.
C2_SucceedsBelowLimit ==
    /\ HandshakeSucceeded
    /\ FinishStep
    /\ FinishedTask.op = "connect"
    /\ FinishedTask.sizeAtCall = maxConnections - 1

C2_ReturnsId ==
    /\ last'.op = "connect" /\ last'.status = "ok"
    /\ last'.value = FinishedTask.id
    /\ FinishedTask.id \in DOMAIN connections'
    /\ connections'[FinishedTask.id].connection = nextHandle
    /\ connections'[FinishedTask.id].queryCount = 0
    /\ \A k \in DOMAIN connections \ {FinishedTask.id} :
         k \in DOMAIN connections' /\ connections'[k] = connections[k]

\* C2 as stated: the successful connect adds exactly one record.
C2_AddsExactlyOneRecord ==
    [][/\ C2_CapacityRule
       /\ C2_SucceedsBelowLimit =>
            /\ C2_ReturnsId
            /\ Size(connections') = Size(connections) + 1]_vars

\* C2 amended: the successful connect adds exactly one record when its id is
\* not registered, and replaces the record of its id (size unchanged) when it is.
C2_StoresOneRecord ==
    [][/\ C2_CapacityRule
       /\ C2_SucceedsBelowLimit =>
            /\ C2_ReturnsId
            /\ DOMAIN connections' = DOMAIN connections \cup {FinishedTask.id}
            /\ Size(connections') =
                 Size(connections) + (IF FinishedTask.id \in DOMAIN connections
                                      THEN 0 ELSE 1)]_vars

\* A connect called at size max - 1 = 1 succeeded on an id that was registered.
C2_Witness ==
    /\ last.op = "connect" /\ last.status = "ok"
    /\ maxConnections = 2
    /\ last.sizeAtCall = maxConnections - 1
    /\ Size(connections) = 1
    /\ connections[last.id].connection = 2

(***************************************************************************)
(* C3.  connect with a type outside the four supported ones fails with     *)
(* the unsupported-type error in every registry state, without a           *)
(* handshake and without changing the registry.                            *)
(***************************************************************************)
\* C3 as stated: always the unsupported-type error.
C3_AlwaysUnsupportedError ==
    /\ \A t \in Pending : t.op = "connect" => t.type \in SupportedTypes
    /\ (last.op = "connect" /\ last.type \notin SupportedTypes) =>
           /\ last.status = "error"
           /\ last.error = UnsupportedTypeError(last.type)

\* C3 amended: the unsupported-type error while the registry is below
\* maxConnections, the capacity error once it has reached it; in both cases no
\* handshake is attempted and the registry is unchanged.
C3_UnsupportedOrCapacityError ==
    [][/\ SuspendedAtCall /\ NewTask.op = "connect" =>
            NewTask.type \in SupportedTypes
       /\ (CompletedAtCall /\ last'.op = "connect"
                           /\ last'.type \notin SupportedTypes) =>
            /\ last'.status = "error"
            /\ last'.error = IF Size(connections) >= maxConnections
                             THEN CapacityError(maxConnections)
                             ELSE UnsupportedTypeError(last'.type)
            /\ UNCHANGED <<connections, queryCache, nextHandle>>]_vars

\* An unsupported type was refused while the registry held a record.
C3_Witness ==
    /\ last.op = "connect" /\ last.type \notin SupportedTypes
    /\ last.error = UnsupportedTypeError(last.type)
    /\ last.sizeAtCall = 1
    /\ Size(connections) = 1
(***************************************************************************)
(* C4.  query on an id that is not in the registry fails at once with the  *)
(* not-found error: no cache lookup, no adapter call, no retry, registry   *)
(* and cache unchanged.  A completed disconnect(id) leaves the id out of   *)
(* the registry, and only a connect brings it back, so every query(id)     *)
(* in between fails this way, also with a valid cache entry for it.        *)
(***************************************************************************)
\* The call made in this step.
TheCall == IF CompletedAtCall THEN last' ELSE NewTask

KeyOf(t) == GetCacheKey(t.id, t.query, t.params)

C4_NotFoundFailsAtOnce ==
    [][/\ (CallStep /\ TheCall.op = "query" /\ TheCall.id \notin DOMAIN connections) =>
            /\ CompletedAtCall
            /\ last'.status = "error"
            /\ last'.error = NotFoundError(last'.id)
            /\ last'.run = NoRun
            /\ UNCHANGED <<connections, queryCache, nextHandle>>
       /\ (FinishStep /\ FinishedTask.op = "disconnect" /\ last'.status = "ok") =>
            FinishedTask.id \notin DOMAIN connections'
       /\ \A id \in Ids :
            (id \notin DOMAIN connections /\ id \in DOMAIN connections') =>
                (HandshakeSucceeded /\ FinishedTask.op = "connect"
                                    /\ FinishedTask.id = id)]_vars

\* A query failed with not-found on an id that had been connected and then
\* disconnected, while a valid cache entry for that id and query exists.
C4_Witness ==
    /\ last.op = "query" /\ last.status = "error"
    /\ last.error = NotFoundError(last.id)
    /\ last.cache /\ cacheEnabled
    /\ KeyOf(last) \in DOMAIN queryCache
    /\ now - queryCache[KeyOf(last)].timestamp < cacheTimeout
    /\ nextHandle = 2

(***************************************************************************)
(* C5.  With caching enabled and no TTL expiry, two identical queries      *)
(* issued one after the other on a connection invoke the adapter exactly   *)
(* once and the second returns the result stored by the first; when the    *)
(* second passes cache:false the adapter is invoked twice.                 *)
(***************************************************************************)
Calls(t) == Count(t.run.events, "call")
Failures(t) == Count(t.run.events, "fail")

\* The latest completed call is a cache-enabled query that executed and stored
\* its result, and the call at hand repeats it.
C5_FirstStored ==
    /\ cacheEnabled
    /\ last.op = "query" /\ last.status = "ok" /\ last.cache
    /\ last.run.pc = "returned"

C5_Repeats(t) == t.op = "query" /\ t.id = last.id /\ t.query = last.query

\* The second call, cache-enabled, is made before the TTL has run out.
C5_SecondCached ==
    /\ C5_FirstStored
    /\ now - last.doneAt < cacheTimeout
    /\ CallStep /\ C5_Repeats(TheCall) /\ TheCall.cache

\* The second call, made with cache:false, is over in this step.
C5_SecondUncachedDone ==
    /\ C5_FirstStored
    /\ FinishStep /\ C5_Repeats(FinishedTask) /\ ~FinishedTask.cache

\* C5 as stated: one adapter invocation over both calls, two with cache:false.
C5_AdapterInvokedOnce ==
    [][/\ C5_SecondCached =>
            /\ CompletedAtCall
            /\ last'.status = "ok" /\ last'.value = last.value
            /\ Calls(last) + Calls(last') = 1
       /\ C5_SecondUncachedDone =>
            Calls(last) + Calls(last') = 2]_vars

\* C5 amended: when the first call succeeds, the second call invokes the adapter
\* not at all and returns the result the first stored; the first invokes it once
\* per attempt (once only when its first attempt succeeds).  With cache:false the
\* second call invokes the adapter again, once per attempt.
C5_SecondServedFromCache ==
    [][/\ C5_SecondCached =>
            /\ CompletedAtCall
            /\ last'.status = "ok" /\ last'.value = last.value
            /\ last'.run = NoRun
            /\ Calls(last) = Failures(last) + 1
       /\ (C5_FirstStored /\ CallStep /\ C5_Repeats(TheCall) /\ ~TheCall.cache) =>
            /\ SuspendedAtCall
            /\ Calls(NewTask) = 1
       /\ C5_SecondUncachedDone =>
            /\ Calls(last') >= 1
            /\ Calls(last') = Failures(last') + (IF last'.status = "ok" THEN 1 ELSE 0)]_vars

\* The second of two queries on the connection was answered from the cache.
C5_Witness ==
    /\ last.op = "query" /\ last.status = "ok" /\ last.cache
    /\ last.run = NoRun
    /\ last.id \in DOMAIN connections
    /\ connections[last.id].queryCount = 2
    /\ last.value = queryCache[KeyOf(last)].result

(***************************************************************************)
(* C6.  A cache entry is served only while now - storedAt < cacheTimeout   *)
(* (an entry of age cacheTimeout is stale).  A stale entry is a miss: the  *)
(* adapter is executed and the entry is overwritten with the new result    *)
(* and a new timestamp.  A lookup never removes an entry: entries leave    *)
(* the cache only by clearCache and change only by being overwritten.      *)
(***************************************************************************)
C6_ServedOnlyWhileFresh ==
    (CompletedAtCall /\ last'.op = "query" /\ last'.status = "ok") =>
        /\ cacheEnabled /\ last'.cache
        /\ KeyOf(last') \in DOMAIN queryCache
        /\ now - queryCache[KeyOf(last')].timestamp < cacheTimeout
        /\ last'.value = queryCache[KeyOf(last')].result

C6_StaleIsMiss ==
    (/\ CallStep /\ TheCall.op = "query" /\ TheCall.id \in DOMAIN connections
     /\ cacheEnabled /\ TheCall.cache
     /\ KeyOf(TheCall) \in DOMAIN queryCache
     /\ now - queryCache[KeyOf(TheCall)].timestamp >= cacheTimeout) =>
        /\ SuspendedAtCall
        /\ NewTask.pc = "exec" /\ Calls(NewTask) = 1
        /\ UNCHANGED queryCache

C6_Overwritten ==
    (/\ FinishStep /\ FinishedTask.op = "query" /\ last'.status = "ok"
     /\ cacheEnabled /\ FinishedTask.cache) =>
        /\ KeyOf(FinishedTask) \in DOMAIN queryCache'
        /\ queryCache'[KeyOf(FinishedTask)] =
             [result |-> last'.value, timestamp |-> now]

C6_NeverRemovedByLookup ==
    \A k \in DOMAIN queryCache :
        /\ k \notin DOMAIN queryCache' =>
             (CompletedAtCall /\ last'.op = "clearCache")
        /\ (k \in DOMAIN queryCache' /\ queryCache'[k] # queryCache[k]) =>
             /\ FinishStep /\ FinishedTask.op = "query"
             /\ KeyOf(FinishedTask) = k /\ last'.status = "ok"

C6_LazyExpiry ==
    [][/\ C6_ServedOnlyWhileFresh
       /\ C6_StaleIsMiss
       /\ C6_Overwritten
       /\ C6_NeverRemovedByLookup]_vars

\* The adapter is executing for a cache-enabled query whose entry, still in the
\* cache, has age exactly cacheTimeout.
C6_Witness ==
    \E t \in Pending :
        /\ t.op = "query" /\ t.cache /\ t.pc = "exec"
        /\ KeyOf(t) \in DOMAIN queryCache
        /\ now - queryCache[KeyOf(t)].timestamp = cacheTimeout
(***************************************************************************)
(* C7.  executeWithRetry with retries = R: an operation that fails k       *)
(* times and then succeeds, k <= R, makes it return the success value      *)
(* after exactly k + 1 invocations; an operation that fails R + 1 times    *)
(* makes it fail after exactly R + 1 invocations, never more.              *)
(***************************************************************************)
RetryRuns == {t \in AllTasks : t.op = "executeWithRetry"}

C7_AttemptCount ==
    \A t \in RetryRuns :
        LET R == t.options.retries
        IN  /\ Calls(t) <= R + 1
            /\ t.pc = "exec" => Calls(t) = Failures(t) + 1
            /\ t.pc = "sleep" => Calls(t) = Failures(t) /\ Failures(t) <= R
            /\ (t.pc = "done" /\ t.status = "ok") =>
                   /\ Failures(t) <= R
                   /\ Calls(t) = Failures(t) + 1
                   /\ t.value = t.run.value /\ t.value \in Results
            /\ (t.pc = "done" /\ t.status = "error") =>
                   /\ Failures(t) = R + 1
                   /\ Calls(t) = R + 1

\* A run returned the success value after failing retries = 2 times.
C7_Witness ==
    /\ last.op = "executeWithRetry" /\ last.status = "ok"
    /\ last.options.retries = 2
    /\ Failures(last) = 2 /\ Calls(last) = 3

(***************************************************************************)
(* C8.  For every retry policy with positive minTimeout, maxTimeout and    *)
(* factor, minTimeout > maxTimeout included, the delay slept before retry  *)
(* n (n >= 1) is min(minTimeout * factor^(n-1), maxTimeout); so no delay   *)
(* exceeds maxTimeout.                                                     *)
(* Violated: the first delay is minTimeout, unclamped.                     *)
(***************************************************************************)
RECURSIVE Pow(_, _)
Pow(b, e) == IF e = 0 THEN 1 ELSE b * Pow(b, e - 1)

IsSleep(e) == e.kind = "sleep"
Sleeps(t) == SelectSeq(t.run.events, IsSleep)

C8_DelayIsClampedPower ==
    \A t \in RetryRuns :
        \A n \in 1..Len(Sleeps(t)) :
            Sleeps(t)[n].delay =
                Min(t.options.minTimeout * Pow(t.options.factor, n - 1),
                    t.options.maxTimeout)

(***************************************************************************)
(* C9.  When every attempt fails, executeWithRetry and query surface the   *)
(* error raised by the last attempt, not an earlier one, unchanged.        *)
(***************************************************************************)
IsFail(e) == e.kind = "fail"
FailuresOf(t) == SelectSeq(t.run.events, IsFail)

C9_LastErrorSurfaces ==
    (last.op \in {"query", "executeWithRetry"} /\ last.status = "error"
                                               /\ Failures(last) > 0) =>
        /\ Failures(last) = last.options.retries + 1
        /\ last.run.thrown = FailuresOf(last)[Failures(last)].error
        /\ last.error = last.run.thrown

\* A query failed on both attempts, with different errors, and surfaced the second.
C9_Witness ==
    /\ last.op = "query" /\ last.status = "error"
    /\ Failures(last) = 2
    /\ FailuresOf(last)[1].error # FailuresOf(last)[2].error
    /\ last.error = FailuresOf(last)[2].error

(***************************************************************************)
(* C10.  Every retry is reported through logger.warn (attempt number,      *)
(* configured retries, delay) before its sleep begins: in one run the      *)
(* number of warn reports equals the number of sleeps, which equals the    *)
(* number of failed attempts followed by another attempt; nothing is       *)
(* reported after the final failed attempt or after a success.             *)
(***************************************************************************)
C10_ReportedBeforeSleep(t) ==
    LET ev == t.run.events
    IN  \A n \in 1..Len(ev) :
            /\ ev[n].kind = "warn" =>
                   /\ n > 1 /\ ev[n - 1].kind = "fail"
                   /\ ev[n].attempt = ev[n - 1].attempt + 1
                   /\ ev[n].retries = t.options.retries
                   /\ n < Len(ev) /\ ev[n + 1].kind = "sleep"
                   /\ ev[n + 1].delay = ev[n].delay
            /\ ev[n].kind = "sleep" => n > 1 /\ ev[n - 1].kind = "warn"
            /\ (ev[n].kind = "fail" /\ n < Len(ev)) => ev[n + 1].kind = "warn"
            /\ (ev[n].kind = "sleep" /\ n < Len(ev)) => ev[n + 1].kind = "call"

C10_WarnPerRetry ==
    \A t \in RetryRuns :
        /\ C10_ReportedBeforeSleep(t)
        /\ Count(t.run.events, "warn") = Count(t.run.events, "sleep")
        /\ Count(t.run.events, "warn") =
             Failures(t) - (IF t.pc = "done" /\ t.status = "error" THEN 1 ELSE 0)
        /\ (t.pc = "done" /\ t.status = "error") =>
               t.run.events[Len(t.run.events)].kind = "fail"
        /\ (t.pc = "done" /\ t.status = "ok") =>
               t.run.events[Len(t.run.events)].kind = "call"

\* A run with retries = 2 failed three times: two reports, two sleeps.
C10_Witness ==
    /\ last.op = "executeWithRetry" /\ last.status = "error"
    /\ last.options.retries = 2
    /\ Count(last.run.events, "warn") = 2
    /\ Count(last.run.events, "sleep") = 2
(***************************************************************************)
(* C11.  disconnect on an id that is not in the registry completes         *)
(* without error, invokes no close, and leaves registry and cache          *)
(* unchanged; a completed disconnect(id) leaves id out of the registry,    *)
(* so a second disconnect(id) made after it is such a no-op.               *)
(***************************************************************************)
C11_UnknownIdIsNoOp ==
    [][/\ (CallStep /\ TheCall.op = "disconnect"
                    /\ TheCall.id \notin DOMAIN connections) =>
            /\ CompletedAtCall
            /\ last'.status = "ok" /\ last'.value = Undefined
            /\ last'.connection = 0
            /\ UNCHANGED <<connections, queryCache, nextHandle, handleLog>>
       /\ (FinishStep /\ FinishedTask.op = "disconnect" /\ last'.status = "ok") =>
            FinishedTask.id \notin DOMAIN connections']_vars

\* A second disconnect, after a first one that closed the handle, found no
\* record and returned; the cache still holds an entry.
C11_Witness ==
    /\ last.op = "disconnect" /\ last.status = "ok"
    /\ last.connection = 0
    /\ last.id \notin DOMAIN connections
    /\ handleLog.closed = {1}
    /\ nextHandle = 2
    /\ DOMAIN queryCache # {}
(***************************************************************************)
(* C12.  disconnectAll attempts to close every connection registered when  *)
(* it is called; a close that fails neither prevents the close attempt on  *)
(* another connection nor makes disconnectAll fail; and when disconnectAll *)
(* completes the registry is empty, whether or not a close failed.         *)
(***************************************************************************)
\* A disconnectAll is called in this step.
DrainCallStep ==
    /\ CallStep
    /\ \E u \in BagToSet(pending') : u.op = "disconnectAll" /\ u.group = left

C12_BestEffortDrain ==
    [][/\ DrainCallStep =>
            /\ \A id \in DOMAIN connections :
                 \E u \in BagToSet(pending') :
                     /\ u.op = "disconnect" /\ u.group = left
                     /\ u.id = id /\ u.pc = "closing"
                     /\ u.connection = connections[id].connection
            /\ UNCHANGED connections
       /\ (FinishStep /\ FinishedTask.op = "disconnect" /\ FinishedTask.group # 0
                      /\ last'.status = "error") =>
            /\ \E all \in BagToSet(pending') :
                 /\ all.op = "disconnectAll" /\ all.group = FinishedTask.group
                 /\ all.pc = "draining"
            /\ \A u \in Pending \ {FinishedTask} : u \in BagToSet(pending')
       /\ (FinishStep /\ FinishedTask.op = "disconnectAll") =>
            /\ last'.status = "ok"
            /\ connections' = << >>
            /\ \A u \in Pending : u.group # FinishedTask.group \/ u = FinishedTask]_vars

\* disconnectAll completed on two connections, one close of which failed: the
\* registry is empty.
C12_Witness ==
    /\ last.op = "disconnectAll" /\ last.status = "ok"
    /\ connections = << >>
    /\ nextHandle = 3
    /\ Cardinality(handleLog.closed) = 1
    /\ handleLog.replaced = {}
    /\ left = MaxCalls - 3
(***************************************************************************)
(* C13.  A handle is released before its record leaves the registry:       *)
(* whenever disconnect or disconnectAll removes a record, the close of     *)
(* that record's handle has completed without error.                       *)
(* Violated: disconnectAll clears the registry whatever the closes did,    *)
(* and disconnect deletes whatever record its id names after the close.    *)
(***************************************************************************)
C13_ReleasedBeforeRemoved ==
    [][\A id \in DOMAIN connections :
           id \notin DOMAIN connections' =>
               connections[id].connection \in handleLog'.closed]_vars
(***************************************************************************)
(* C14.  listConnections and getConnectionInfo never expose the stored     *)
(* password: for every registered connection the returned config.password  *)
(* is '***', so registries that differ only in the stored password values  *)
(* give the same output; the stored config keeps its password.             *)
(***************************************************************************)
HasPassword(registry) ==
    {id \in DOMAIN registry : "password" \in DOMAIN registry[id].config}

\* The registries that differ from the given one in stored password values only.
PasswordVariants(registry) ==
    {[id \in DOMAIN registry |->
        IF id \in HasPassword(registry)
        THEN [registry[id] EXCEPT !.config = Set(@, "password", secret[id])]
        ELSE registry[id]] : secret \in [HasPassword(registry) -> Passwords]}

IsRedacted(info) ==
    "password" \in DOMAIN info.config /\ info.config["password"] = Redacted

C14_PasswordRedacted ==
    [][/\ (CompletedAtCall /\ last'.op = "listConnections") =>
            /\ UNCHANGED connections
            /\ {info.id : info \in last'.value} = DOMAIN connections
            /\ \A info \in last'.value : IsRedacted(info)
            /\ \A other \in PasswordVariants(connections) :
                 ListConnectionsIn(other) = last'.value
       /\ (CompletedAtCall /\ last'.op = "getConnectionInfo"
                           /\ last'.id \in DOMAIN connections) =>
            /\ UNCHANGED connections
            /\ IsRedacted(last'.value)
            /\ \A other \in PasswordVariants(connections) :
                 GetConnectionInfoIn(other, last'.id) = last'.value]_vars

\* listConnections returned the marker for a connection whose stored config
\* still holds the password p1; another registered connection holds p2.
C14_Witness ==
    /\ last.op = "listConnections" /\ last.status = "ok"
    /\ \E id \in HasPassword(connections) :
         /\ connections[id].config["password"] = "p1"
         /\ \E info \in last.value : info.id = id /\ IsRedacted(info)
    /\ \E id \in HasPassword(connections) : connections[id].config["password"] = "p2"
(***************************************************************************)
(* C15.  Every query call on a registered id adds exactly 1 to that        *)
(* record's queryCount and sets its lastUsed to the current time, whether  *)
(* it ends in a cache hit, a miss, a success or a failure, and whatever    *)
(* the number of its attempts; queryCount is 0 at connect and never        *)
(* decreases while the record stays; lastUsed is never before createdAt.   *)
(***************************************************************************)
QueryCallOn(id) == CallStep /\ TheCall.op = "query" /\ TheCall.id = id

C15_Bookkeeping ==
    [][/\ \A id \in DOMAIN connections :
            IF QueryCallOn(id)
            THEN /\ id \in DOMAIN connections'
                 /\ connections'[id] =
                      [connections[id] EXCEPT !.queryCount = @ + 1, !.lastUsed = now]
            ELSE (/\ id \in DOMAIN connections'
                  /\ connections'[id].connection = connections[id].connection) =>
                     connections'[id] = connections[id]
       /\ (HandshakeSucceeded /\ FinishedTask.op = "connect") =>
            /\ connections'[FinishedTask.id].queryCount = 0
            /\ connections'[FinishedTask.id].createdAt = now
            /\ connections'[FinishedTask.id].lastUsed = now
       /\ \A id \in DOMAIN connections' :
            connections'[id].lastUsed >= connections'[id].createdAt]_vars

\* Three queries were made on the connection, the last of which failed on both
\* of its attempts, some time after the connect: the count is 3.
C15_Witness ==
    /\ last.op = "query" /\ last.status = "error" /\ Failures(last) = 2
    /\ last.id \in DOMAIN connections
    /\ connections[last.id].queryCount = 3
    /\ connections[last.id].lastUsed > connections[last.id].createdAt
(***************************************************************************)
(* C16.  A caller-supplied id already in the registry is not rejected:     *)
(* below capacity, connect with that id succeeds, replaces the record      *)
(* with a fresh one (new handle, queryCount 0), leaves the registry size   *)
(* unchanged, and the previous record's handle is never closed.            *)
(***************************************************************************)
\* connect is called with a registered id and a supported type below capacity:
\* no rejection, the handshake is started.
C16_NotRejected ==
    (/\ CallStep /\ TheCall.op = "connect"
     /\ TheCall.id \in DOMAIN connections
     /\ TheCall.type \in SupportedTypes
     /\ Size(connections) < maxConnections) =>
        /\ SuspendedAtCall
        /\ NewTask.pc = "handshake"

\* The handshake of a connect on a registered id succeeds in this step.
C16_ReplaceStep ==
    /\ HandshakeSucceeded /\ FinishStep /\ FinishedTask.op = "connect"
    /\ FinishedTask.id \in DOMAIN connections

C16_Replaces ==
    C16_ReplaceStep =>
        /\ last'.status = "ok" /\ last'.value = FinishedTask.id
        /\ DOMAIN connections' = DOMAIN connections
        /\ connections'[FinishedTask.id].connection = nextHandle
        /\ connections'[FinishedTask.id].connection
               # connections[FinishedTask.id].connection
        /\ connections'[FinishedTask.id].queryCount = 0
        /\ \A k \in DOMAIN connections \ {FinishedTask.id} :
             connections'[k] = connections[k]
        /\ connections[FinishedTask.id].connection \in handleLog'.replaced

\* The disconnect calls that hold the handle h, captured before their await.
Holders(h) == {t \in Pending : t.op = "disconnect" /\ t.connection = h}

\* C16 as stated: no replaced handle is ever closed.
C16_PreviousNeverClosed ==
    [][/\ C16_NotRejected
       /\ C16_Replaces
       /\ handleLog'.replaced \cap handleLog'.closed = {}]_vars

\* C16 amended: connect closes nothing; a replaced handle is closed only by a
\* disconnect that captured it before the replacement, and never when there
\* is none.
C16_PreviousNotClosedByConnect ==
    [][/\ C16_NotRejected
       /\ C16_Replaces
       /\ C16_ReplaceStep => handleLog'.closed = handleLog.closed
       /\ \A h \in handleLog.replaced \ handleLog.closed :
            /\ h \in handleLog'.closed =>
                 (FinishStep /\ FinishedTask \in Holders(h) /\ last'.status = "ok")
            /\ Holders(h) = {} =>
                 h \notin handleLog'.closed
       /\ \A h \in handleLog'.replaced :
            \A t \in BagToSet(pending') :
                (t.op = "disconnect" /\ t.connection = h) => t \in Pending]_vars

\* A connect replaced the record of its id: handle 2 is registered, handle 1 is
\* open, held by no call, and out of the registry.
C16_Witness ==
    /\ last.op = "connect" /\ last.status = "ok"
    /\ handleLog.replaced = {1} /\ handleLog.closed = {}
    /\ Holders(1) = {}
    /\ DOMAIN connections = {last.id}
    /\ connections[last.id].connection = 2
    /\ connections[last.id].queryCount = 0
(***************************************************************************)
(* C17.  When the handshake of a supported backend fails, connect fails    *)
(* with the driver's own error, unmodified; the handshake is attempted     *)
(* once (connect is not retried); and the registry is unchanged: no        *)
(* record is added for the failed connect.                                 *)
(***************************************************************************)
C17_HandshakeFailure ==
    [][/\ (FinishStep /\ FinishedTask.op = "connect" /\ ~HandshakeSucceeded) =>
            /\ last'.status = "error"
            /\ \E e \in Errors : last'.error = DriverError(e)
            /\ last'.run = NoRun
            /\ UNCHANGED <<connections, nextHandle, handleLog>>
       /\ \A t \in Pending :
            t.op = "connect" =>
                /\ t.pc = "handshake" /\ t.type \in SupportedTypes
                /\ t \in BagToSet(pending') \/ (FinishStep /\ FinishedTask = t)
       /\ BagCardinality(pending') <= BagCardinality(pending) + 1]_vars

\* A connect failed with the driver's error e1 while another connection was
\* registered: the registry holds that one record only.
C17_Witness ==
    /\ last.op = "connect" /\ last.status = "error"
    /\ last.error = DriverError("e1")
    /\ last.type \in SupportedTypes
    /\ Size(connections) = 1
    /\ last.id \notin DOMAIN connections
(***************************************************************************)
(* C18.  A query with cache:false bypasses the cache in both directions:   *)
(* it always invokes the adapter, also when a valid entry exists, and it   *)
(* leaves the cache as it is (it neither stores its result nor refreshes   *)
(* or removes an entry).                                                   *)
(***************************************************************************)
C18_CacheFalseBypasses ==
    [][/\ (CallStep /\ TheCall.op = "query" /\ ~TheCall.cache
                    /\ TheCall.id \in DOMAIN connections) =>
            /\ SuspendedAtCall
            /\ NewTask.pc = "exec" /\ Calls(NewTask) = 1
            /\ UNCHANGED queryCache
       /\ \A t \in Pending :
            (t.op = "query" /\ ~t.cache /\ pending' # pending /\ ~CallStep) =>
                UNCHANGED queryCache
       /\ (FinishStep /\ FinishedTask.op = "query" /\ ~FinishedTask.cache) =>
            /\ Calls(last') >= 1
            /\ UNCHANGED queryCache]_vars

\* A query with cache:false returned r2 from the adapter while the cache holds
\* a valid entry with another result for the same fingerprint.
C18_Witness ==
    /\ last.op = "query" /\ last.status = "ok" /\ ~last.cache
    /\ Calls(last) >= 1
    /\ KeyOf(last) \in DOMAIN queryCache
    /\ now - queryCache[KeyOf(last)].timestamp < cacheTimeout
    /\ queryCache[KeyOf(last)].result # last.value
(***************************************************************************)
(* C19.  clearCache removes all entries: when it returns the cache is      *)
(* empty and the registry unchanged, and the next cache-enabled query,     *)
(* for whatever fingerprint was cached before, invokes the adapter again.  *)
(***************************************************************************)
C19_ClearCacheEmpties ==
    [][/\ (CompletedAtCall /\ last'.op = "clearCache") =>
            /\ last'.status = "ok"
            /\ queryCache' = << >>
            /\ UNCHANGED <<connections, nextHandle, handleLog>>
       /\ (/\ last.op = "clearCache"
           /\ CallStep /\ TheCall.op = "query" /\ TheCall.cache
           /\ TheCall.id \in DOMAIN connections) =>
              /\ SuspendedAtCall
              /\ NewTask.pc = "exec" /\ Calls(NewTask) = 1]_vars

\* The call made right after a clearCache, a cache-enabled query on a
\* connection queried before, is executing on the adapter; no time has passed
\* since the connect, so no entry can have expired.
C19_Witness ==
    /\ last.op = "clearCache" /\ last.status = "ok"
    /\ queryCache = << >>
    /\ now = 0
    /\ \E t \in Pending :
         /\ t.op = "query" /\ t.cache /\ t.pc = "exec"
         /\ connections[t.id].queryCount = 2
(***************************************************************************)
(* C20.  While a query is suspended in a backoff sleep, other operations   *)
(* are not blocked: a query on another connection, and a connect or a      *)
(* disconnect of another id, can start and run to completion before the    *)
(* sleeping query resumes.                                                 *)
(***************************************************************************)
Sleepers == {t \in Pending : t.op = "query" /\ t.pc = "sleep"}

\* A caller is free to make a call.
C20_CallerFree == left > 0 /\ BagCardinality(ByCallers) < Cardinality(Callers)

C20_SleepBlocksNothing ==
    \A t \in Sleepers :
        /\ C20_CallerFree =>
             \A id \in Ids \ {t.id} :
                 /\ ENABLED QueryCall(id, "SELECT 1", TRUE)
                 /\ ENABLED ConnectCall(id, "sqlite")
                 /\ ENABLED DisconnectCall(id)
        /\ \A u \in Pending \ {t} :
             /\ (u.op = "query" /\ u.pc = "exec") =>
                    ENABLED QueryOk(u, "r1") /\ ENABLED QueryFail(u, "e1")
             /\ (u.op = "connect" /\ u.pc = "handshake") => ENABLED ConnectOk(u)
             /\ (u.op = "disconnect" /\ u.pc = "closing") => ENABLED DisconnectOk(u)

\* A query on one connection sleeps until wakeAt; a query on the other
\* connection was called after that sleep began and has returned its result
\* before the sleep is over.
C20_Witness ==
    \E t \in Sleepers :
        /\ pending = SetToBag({t})
        /\ now < t.wakeAt
        /\ last.op = "query" /\ last.status = "ok" /\ Calls(last) = 1
        /\ last.id # t.id
        /\ connections[last.id].lastUsed > t.wakeAt - t.run.delay
(***************************************************************************)
(* C21.  Two concurrent queries on the same connection id are not          *)
(* serialized: two adapter executions on the same handle can be in flight  *)
(* at the same time, and no per-connection lock or queue orders them.      *)
(***************************************************************************)
\* The adapter executions in flight: the query calls awaiting the adapter.

\* Whenever an adapter execution is in flight on a registered connection and a
\* caller is free, a further query on that connection can be called, and the
\* call of a query on a connection starts its adapter execution at once.
C21_NotSerialized ==
    /\ \A t \in Executing :
         (C20_CallerFree /\ t.id \in DOMAIN connections) =>
             ENABLED (/\ QueryCall(t.id, "SELECT 1", TRUE)
                      /\ BagCardinality(pending') = BagCardinality(pending) + 1)
    /\ \A t \in Executing : Calls(t) = Failures(t) + 1

\* Two adapter executions are in flight on the same handle.
C21_Witness ==
    /\ BagCardinality(pending) = 2
    /\ \A t \in Pending : t \in Executing /\ t.id = "a" /\ t.connection = 1
    /\ "a" \in DOMAIN connections /\ connections["a"].connection = 1
    /\ connections["a"].queryCount = 2
(***************************************************************************)
(* C22.  There is no cancellation: when every adapter call returns or      *)
(* fails, every query terminates after at most retries + 1 attempts, and   *)
(* a disconnect, disconnectAll or clearCache made while a query sleeps     *)
(* between attempts does not stop it: its remaining attempts run, on the   *)
(* handle it captured at its start, to completion or exhaustion.           *)
(***************************************************************************)
QueriesPending == {t \in Pending : t.op = "query"}

\* The suspended query t after this step: as it was, or over (returned, or failed
\* on all its attempts), or further on in its run with the same handle.
C22_RunsOn(t) ==
    \/ t \in BagToSet(pending')
    \/ /\ FinishStep /\ FinishedTask = t
       /\ last'.connection = t.connection
       /\ last'.status = "ok" \/ Failures(last') = t.options.retries + 1
    \/ \E u \in BagToSet(pending') :
           /\ u.op = "query" /\ u.id = t.id /\ u.connection = t.connection
           /\ Len(u.run.events) > Len(t.run.events)
           /\ SubSeq(u.run.events, 1, Len(t.run.events)) = t.run.events

C22_NoCancellation ==
    /\ [](\A t \in QueriesPending \cup {last} :
              t.op = "query" => Calls(t) <= t.options.retries + 1)
    /\ [][/\ \A t \in QueriesPending : C22_RunsOn(t)
          /\ (CallStep \/ (FinishStep /\ FinishedTask.op # "query")) =>
                 \A t \in QueriesPending : t \in BagToSet(pending')]_vars
    /\ <>[](QueriesPending = {})

\* The second attempt of a query is running on handle 1 although a disconnect,
\* completed while the query slept, has closed that handle and removed the
\* record.
C22_Witness ==
    \E t \in Executing :
        /\ Calls(t) = 2
        /\ t.id \notin DOMAIN connections
        /\ t.connection \in handleLog.closed
        /\ last.op = "disconnect" /\ last.status = "ok"
        /\ last.connection = t.connection
        /\ last.doneAt > t.wakeAt - Sleeps(t)[1].delay
        /\ last.doneAt < t.wakeAt
(***************************************************************************)
(* C23.  Constructor options take effect as supplied, 0 included, and the  *)
(* defaults (retries 3, retryFactor 2, minRetryTimeout 1000,               *)
(* maxRetryTimeout 5000, maxConnections 10, cacheTimeout 300000, cache     *)
(* disabled) apply only to options left out: with retries = n supplied a   *)
(* query makes at most n + 1 adapter attempts, and the supplied            *)
(* maxConnections and cacheTimeout are the values enforced.                *)
(***************************************************************************)
Supplied(name) == name \in DOMAIN constructorOptions

C23_OptionsAsSupplied ==
    /\ retryOptions.retries =
         IF Supplied("retries") THEN constructorOptions.retries ELSE DefaultRetries
    /\ maxConnections =
         IF Supplied("maxConnections") THEN constructorOptions.maxConnections
         ELSE DefaultMaxConnections
    /\ cacheTimeout =
         IF Supplied("cacheTimeout") THEN constructorOptions.cacheTimeout
         ELSE DefaultCacheTimeout
    /\ retryOptions.factor = DefaultRetryFactor
    /\ retryOptions.minTimeout = DefaultMinRetryTimeout
    /\ retryOptions.maxTimeout = DefaultMaxRetryTimeout
    /\ \A t \in QueriesPending \cup {last} :
           (t.op = "query" /\ Supplied("retries")) =>
               Calls(t) <= constructorOptions.retries + 1
    /\ Supplied("maxConnections") => Size(connections) <= constructorOptions.maxConnections
(***************************************************************************)
(* C24.  A document-store request that lacks collection or lacks operation *)
(* fails with the malformed-request error before any call is made on the   *)
(* backend handle: db.collection is not called and no collection operation *)
(* runs.                                                                   *)
(***************************************************************************)
Lacks(query, name) == name \notin DOMAIN query \/ query[name] = ""

C24_Malformed(t) ==
    /\ t.op = "queryMongoDB"
    /\ Lacks(t.query, "collection") \/ Lacks(t.query, "operation")

C24_FailedBeforeBackend(t) ==
    /\ t.pc = "done" /\ t.status = "error"
    /\ t.error = MalformedRequestError
    /\ t.backend = << >>

C24_MalformedBeforeBackend ==
    /\ \A t \in Pending : ~C24_Malformed(t)
    /\ C24_Malformed(last) => C24_FailedBeforeBackend(last)

\* A request that names a collection and no operation has failed.
C24_Witness ==
    /\ last.op = "queryMongoDB"
    /\ DOMAIN last.query = {"collection"} /\ last.query.collection = "users"
    /\ last.status = "error" /\ last.error = MalformedRequestError

(***************************************************************************)
(* C25.  A document-store request whose operation is outside the nine      *)
(* supported ones fails with the unsupported-operation error without ever  *)
(* contacting the collection handle: the handle is neither obtained from   *)
(* the database handle nor used for any operation.                         *)
(* Violated: db.collection(collection) is called before the switch on the  *)
(* operation, so the handle is obtained.                                   *)
(***************************************************************************)
C25_Unsupported(t) ==
    /\ t.op = "queryMongoDB"
    /\ ~Lacks(t.query, "collection") /\ ~Lacks(t.query, "operation")
    /\ t.query.operation \notin MongoOperations

C25_Failed(t) ==
    /\ t.pc = "done" /\ t.status = "error"
    /\ t.error = UnsupportedOperationError(t.query.operation)

C25_HandleNeverObtained ==
    /\ \A t \in Pending : ~C25_Unsupported(t)
    /\ C25_Unsupported(last) => (C25_Failed(last) /\ last.backend = << >>)

\* C25 as the code has it: the request fails with the unsupported-operation
\* error and no operation runs on the collection handle; the handle itself is
\* obtained, by the one call db.collection(collection), and never used.
C25_HandleObtainedNotUsed ==
    /\ \A t \in Pending : ~C25_Unsupported(t)
    /\ C25_Unsupported(last) =>
           /\ C25_Failed(last)
           /\ last.backend = <<DriverCall("db.collection", last.query.collection)>>

C25_Witness ==
    /\ C25_Unsupported(last)
    /\ last.query = [collection |-> "users", operation |-> "unknownOp"]
    /\ last.status = "error"

(***************************************************************************)
(* C26.  The sqlite adapter classifies a text query by its leading keyword *)
(* only: after the leading whitespace, a prefix SELECT in any case gives   *)
(* the read shape, the rows of db.all; every other text gives the mutate   *)
(* shape {changes, lastID} through db.run.  Exactly one of the two driver  *)
(* calls is made per execution.                                            *)
(***************************************************************************)
\* The text is some whitespace followed by the letters of SELECT in either case.
LeadingSelect(text) ==
    \E k \in 0..Len(text) :
        /\ \A i \in 1..k : CharAt(text, i) \in Whitespace
        /\ Len(text) >= k + 6
        /\ \A j \in 1..6 : CharAt(text, k + j) \in {CharAt("SELECT", j), CharAt("select", j)}

C26_Classified(t) ==
    t.op = "querySQLite" =>
        /\ Len(t.backend) = 1
        /\ t.backend[1].arg = t.query.text
        /\ IF LeadingSelect(t.query.text)
           THEN /\ t.backend[1].method = "db.all"
                /\ t.status = "ok" =>
                       /\ t.value.array
                       /\ DOMAIN t.value = {"array", "items"}
           ELSE /\ t.backend[1].method = "db.run"
                /\ t.status = "ok" =>
                       /\ ~t.value.array
                       /\ DOMAIN t.value = {"array", "changes", "lastID"}

C26_ClassifiedByLeadingKeyword ==
    /\ \A t \in Pending : C26_Classified(t)
    /\ C26_Classified(last)

\* A text with leading whitespace and select in mixed case returned rows, and a
\* text that only contains SELECT further on is in flight through db.run.
C26_Witness ==
    /\ last.op = "querySQLite"
    /\ last.query.text = "\n\t SeLeCt 1 "
    /\ last.status = "ok" /\ last.value = Rows(<<"row1">>)
    /\ \E t \in Pending :
           /\ t.op = "querySQLite" /\ t.query.text = " INSERT INTO t SELECT"
           /\ t.backend = <<DriverCall("db.run", t.query.text)>>
(***************************************************************************)
(* C27.  getTableSchema returns the schema as a row sequence (an Array)    *)
(* for every backend kind; on a sqlite connection PRAGMA table_info(<t>)   *)
(* is executed in the read shape and yields the column rows, not a         *)
(* {changes, lastID} result.                                               *)
(* Violated: the PRAGMA text does not start with SELECT, so querySQLite    *)
(* runs it through db.run and resolves with {changes, lastID}.             *)
(***************************************************************************)
C27_SchemaIsRows ==
    (last.via = "getTableSchema" /\ last.status = "ok") => last.value.array
(***************************************************************************)
(* C28.  Schema introspection adds no mechanism of its own: for every      *)
(* backend kind, getTables and getTableSchema on a registered id issue     *)
(* exactly one request through the normal query path, with the kind's      *)
(* canned template, so that queryCount increases by 1 and cache and retry  *)
(* apply as for any query; on an unregistered id both fail with the        *)
(* not-found error without invoking the adapter.                           *)
(* Violated: getTables on a mongodb connection calls                       *)
(* db.listCollections().toArray() on the handle itself.                    *)
(***************************************************************************)
IntrospectionMethods == {"getTables", "getTableSchema"}
Method(t) == IF t.op = "query" THEN t.via ELSE t.op
IntrospectionCall == CallStep /\ Method(TheCall) \in IntrospectionMethods

Canned(method, type) ==
    IF method = "getTables" THEN TablesQuery(type) ELSE SchemaQuery(type, "users")

\* The call made in this step is one query call with the canned request: counted
\* on the record, answered from the cache when the cache has a valid entry, and
\* handed to the retry executor otherwise.
C28_ThroughQuery(c) ==
    /\ c.op = "query" /\ c.cache
    /\ c.query = Canned(c.via, connections[c.id].type)
    /\ connections'[c.id].queryCount = connections[c.id].queryCount + 1
    /\ connections'[c.id].lastUsed = now
    /\ IF CacheValid(KeyOf(c))
       THEN /\ CompletedAtCall /\ c.status = "ok"
            /\ c.value = queryCache[KeyOf(c)].result
       ELSE /\ SuspendedAtCall /\ c.pc = "exec"
            /\ c.options = retryOptions /\ Calls(c) = 1

C28_NotFound(c) ==
    /\ CompletedAtCall
    /\ c.status = "error" /\ c.error = NotFoundError(c.id)
    /\ Calls(c) = 0 /\ c.backend = << >>
    /\ UNCHANGED <<connections, queryCache>>

\* The call made in this step has called listCollections on the handle, outside
\* the query path.
C28_Direct(c) ==
    /\ SuspendedAtCall
    /\ c.op = "getTables" /\ c.pc = "listing"
    /\ c.connection = connections[c.id].connection
    /\ c.backend = <<DriverCall("db.listCollections", ""), DriverCall("cursor.toArray", "")>>
    /\ Calls(c) = 0
    /\ UNCHANGED <<connections, queryCache>>

C28_AlwaysThroughQuery ==
    [][IntrospectionCall =>
          IF TheCall.id \in DOMAIN connections
          THEN C28_ThroughQuery(TheCall)
          ELSE C28_NotFound(TheCall)]_vars

\* C28 as the code has it: getTableSchema for every backend kind, and getTables
\* for the sqlite, mysql and postgres kinds, issue one request through the query
\* path; getTables on a mongodb connection calls listCollections on the handle
\* directly, and its outcome is the driver's, with the record and the cache
\* left as they were and no retry.
C28_ThroughQueryButMongoTables ==
    [][/\ IntrospectionCall =>
             IF TheCall.id \notin DOMAIN connections
             THEN C28_NotFound(TheCall)
             ELSE IF Method(TheCall) = "getTables" /\ connections[TheCall.id].type = "mongodb"
             THEN C28_Direct(TheCall)
             ELSE C28_ThroughQuery(TheCall)
       /\ (FinishStep /\ FinishedTask.op = "getTables") =>
             /\ UNCHANGED <<connections, queryCache>>
             /\ Calls(last') = 0
             /\ last'.status = "ok" => last'.value.array]_vars

\* getTables on the mongodb connection has returned the driver's list, and the
\* record counts only the getTableSchema made before it, whose result is cached.
C28_Witness ==
    /\ last.op = "getTables" /\ last.type = "mongodb" /\ last.status = "ok"
    /\ "a" \in DOMAIN connections /\ connections["a"].queryCount = 1
    /\ GetCacheKey("a", SchemaQuery("mongodb", "users"), NoParams) \in DOMAIN queryCache
(***************************************************************************)
(* C29.  Generated connection ids have the form                            *)
(* <type>-<digits>-<lowercase alphanumerics> and are pairwise distinct     *)
(* across the calls on one reader, so that a connect without a supplied id *)
(* never reuses an id that is present in the registry and never overwrites *)
(* an existing record.                                                     *)
(* Violated: the id is the clock and one draw of Math.random(); two        *)
(* connects in the same millisecond with equal draws get the same id, and  *)
(* the draw 0 gives an id with nothing after the second dash.              *)
(***************************************************************************)
Digits == "0123456789"
IsDigit(c) == \E i \in 1..Len(Digits) : CharAt(Digits, i) = c
IsLowerAlnum(c) == IsDigit(c) \/ \E i \in 1..Len(LowerCase) : CharAt(LowerCase, i) = c

\* id is type, a dash, one digit or more, a dash, one lowercase letter or digit or more.
HasGeneratedForm(id, type) ==
    LET n == Len(type) IN
    /\ StartsWith(id, type \o "-")
    /\ \E d \in n + 3 .. Len(id) - 1 :
           /\ CharAt(id, d) = "-"
           /\ \A i \in n + 2 .. d - 1 : IsDigit(CharAt(id, i))
           /\ \A i \in d + 1 .. Len(id) : IsLowerAlnum(CharAt(id, i))

GeneratedId(t) == t.op = "connect" /\ t.id \notin Ids

C29_GeneratedIdsFresh ==
    [][/\ (CallStep /\ GeneratedId(TheCall)) => HasGeneratedForm(TheCall.id, TheCall.type)
       /\ (HandshakeSucceeded /\ GeneratedId(FinishedTask)) =>
              FinishedTask.id \notin DOMAIN connections]_vars
(***************************************************************************)
(* C30.  Within one query call that misses the cache the steps occur in    *)
(* the order: registry lookup, cache lookup, retry-wrapped adapter call,   *)
(* cache store, registry bookkeeping update; lastUsed and queryCount are   *)
(* updated only after the adapter call has returned and the result has     *)
(* been stored.                                                            *)
(* Violated: the bookkeeping is done right after the registry lookup.      *)
(***************************************************************************)
QueryMissStep == CallStep /\ SuspendedAtCall /\ NewTask.op = "query"
QueryReturnStep == FinishStep /\ FinishedTask.op = "query" /\ last'.status = "ok"

C30_Stored(t) ==
    CacheUsed(t.cache) =>
        /\ KeyOf(t) \in DOMAIN queryCache'
        /\ queryCache'[KeyOf(t)] = [result |-> last'.value, timestamp |-> now]

C30_BookkeepingLast ==
    [][/\ QueryMissStep => UNCHANGED connections
       /\ (QueryReturnStep /\ FinishedTask.id \in DOMAIN connections) =>
              /\ C30_Stored(FinishedTask)
              /\ connections'[FinishedTask.id].queryCount =
                     connections[FinishedTask.id].queryCount + 1
              /\ connections'[FinishedTask.id].lastUsed = now]_vars

\* C30 as the code has it: registry lookup, registry bookkeeping update, cache
\* lookup, retry-wrapped adapter call, cache store.  The record is updated in the
\* step of the call, before the cache is looked at and the adapter is called,
\* and is left alone when the adapter has returned and the result is stored.
C30_BookkeepingFirst ==
    [][/\ QueryMissStep =>
              /\ NewTask.id \in DOMAIN connections
              /\ connections'[NewTask.id].queryCount =
                     connections[NewTask.id].queryCount + 1
              /\ connections'[NewTask.id].lastUsed = now
              /\ ~(CacheUsed(NewTask.cache) /\ CacheValid(KeyOf(NewTask)))
              /\ NewTask.pc = "exec" /\ Calls(NewTask) = 1
              /\ UNCHANGED queryCache
       /\ QueryReturnStep =>
              /\ C30_Stored(FinishedTask)
              /\ UNCHANGED connections]_vars

\* A query that missed the cache has returned after a retry: its result was
\* stored later than the record was last updated, and the record counts it.
C30_Witness ==
    /\ last.op = "query" /\ last.status = "ok" /\ last.cache
    /\ Calls(last) = 2
    /\ last.id \in DOMAIN connections
    /\ connections[last.id].queryCount = 1
    /\ KeyOf(last) \in DOMAIN queryCache
    /\ queryCache[KeyOf(last)].result = last.value
    /\ connections[last.id].lastUsed < queryCache[KeyOf(last)].timestamp
(***************************************************************************)
(* C31.  There is no invalidation on write: a successful mutating query    *)
(* leaves every cache entry unchanged, so an identical cache-enabled read  *)
(* issued within the TTL after the mutation returns the result cached      *)
(* before the mutation without invoking the adapter.                       *)
(* Violated as worded: a cache-enabled mutating query stores its own       *)
(* result, and so overwrites the entry of its own key when there is one.   *)
(***************************************************************************)
MutationReturnStep == QueryReturnStep /\ FinishedTask.query = "INSERT"

\* A cache-enabled query whose key has a valid entry is answered from it.
C31_ServedFromCache ==
    (CallStep /\ TheCall.op = "query" /\ TheCall.id \in DOMAIN connections
       /\ CacheUsed(TheCall.cache) /\ CacheValid(KeyOf(TheCall))) =>
        /\ CompletedAtCall /\ TheCall.status = "ok"
        /\ TheCall.value = queryCache[KeyOf(TheCall)].result
        /\ Calls(TheCall) = 0

C31_EveryEntryUnchanged ==
    [][/\ MutationReturnStep =>
              \A k \in DOMAIN queryCache :
                  k \in DOMAIN queryCache' /\ queryCache'[k] = queryCache[k]
       /\ C31_ServedFromCache]_vars

\* C31 as the code has it: a successful mutating query leaves every cache entry
\* stored under another key unchanged; under its own key it stores its result
\* when it is cache-enabled, and changes nothing when it is not.
C31_OtherEntriesUnchanged ==
    [][/\ MutationReturnStep =>
              /\ \A k \in DOMAIN queryCache \ {KeyOf(FinishedTask)} :
                     k \in DOMAIN queryCache' /\ queryCache'[k] = queryCache[k]
              /\ C30_Stored(FinishedTask)
              /\ ~CacheUsed(FinishedTask.cache) => UNCHANGED queryCache
       /\ C31_ServedFromCache]_vars

\* A read was cached, then a mutation succeeded, then the same read was answered
\* from the entry stored before the mutation.
C31_Witness ==
    LET read == GetCacheKey("a", "SELECT 1", NoParams)
        write == GetCacheKey("a", "INSERT", NoParams)
    IN  /\ read \in DOMAIN queryCache /\ write \in DOMAIN queryCache
        /\ queryCache[read].timestamp < queryCache[write].timestamp
        /\ last.op = "query" /\ last.query = "SELECT 1" /\ last.status = "ok"
        /\ Calls(last) = 0
        /\ last.value = queryCache[read].result
        /\ last.doneAt >= queryCache[write].timestamp
(***************************************************************************)
(* C32.  getCacheKey is a pure function of (connectionId, query, params):  *)
(* equal arguments give the same key and arguments that differ in any of   *)
(* the three give different keys; consequently a cache-enabled query is    *)
(* never answered from an entry stored for a different connection id, a    *)
(* different query or different params.                                    *)
(* Violated: the params enter the key through JSON.stringify, which        *)
(* writes null for undefined, so [undefined] and [null] have one key.      *)
(***************************************************************************)
C32_KeysDistinguishArguments ==
    /\ \A key \in DOMAIN queryCache :
           Cardinality({params \in ParamsIn : GetCacheKey("a", "SELECT ?", params) = key}) = 1
    /\ (last.op = "query" /\ last.status = "ok") => last.value = Rows(last.params)
(***************************************************************************)
(* C33.  Cache entries outlive the connection they were computed on:       *)
(* disconnect and disconnectAll remove no cache entry, so after            *)
(* disconnect(id) and a new connect with the same supplied id, an          *)
(* identical cache-enabled query within the TTL returns the result         *)
(* computed on the previous handle without invoking the adapter on the     *)
(* new one.                                                                *)
(***************************************************************************)
Key33 == GetCacheKey("a", "SELECT 1", NoParams)

C33_CacheOutlivesConnection ==
    [][/\ queryCache' # queryCache => QueryReturnStep
       /\ (CallStep /\ last'.op = "query" /\ last' # last
             /\ "a" \in DOMAIN connections /\ CacheValid(Key33)) =>
              /\ pending' = pending
              /\ last'.status = "ok" /\ last'.value = queryCache[Key33].result
              /\ Calls(last') = 0
              /\ \A t \in BagToSet(pending') : t.op # "query"]_vars

\* The query was answered from the cache on the second handle of id a; the
\* entry was stored before that record was created, and the first handle is
\* closed.
C33_Witness ==
    /\ last.op = "query" /\ last.status = "ok" /\ Calls(last) = 0
    /\ "a" \in DOMAIN connections /\ connections["a"].connection = 2
    /\ 1 \in handleLog.closed
    /\ Key33 \in DOMAIN queryCache
    /\ queryCache[Key33].timestamp < connections["a"].createdAt
    /\ last.value = queryCache[Key33].result
(***************************************************************************)
(* C34.  Cache misses are not coalesced: when two identical cache-enabled  *)
(* queries overlap (the second starts before the first has stored its      *)
(* result), both invoke the adapter, and afterwards the cache entry holds  *)
(* the result of whichever call completed last, stamped with that call's   *)
(* completion time rather than its start time.                             *)
(***************************************************************************)
\* The cache-enabled queries in flight that are identical to t.
C34_Twins(t) == {u \in Executing : u.cache /\ KeyOf(u) = KeyOf(t)}

C34_MissesNotCoalesced ==
    [][/\ (CallStep /\ TheCall.op = "query" /\ TheCall.cache
             /\ TheCall.id \in DOMAIN connections
             /\ C34_Twins(TheCall) # {} /\ ~CacheValid(KeyOf(TheCall))) =>
              /\ SuspendedAtCall
              /\ NewTask.pc = "exec" /\ Calls(NewTask) = 1
              /\ BagCardinality(pending') = BagCardinality(pending) + 1
              /\ \A u \in C34_Twins(NewTask) : u \in BagToSet(pending') /\ Calls(u) = 1
       /\ (QueryReturnStep /\ FinishedTask.cache) =>
              /\ KeyOf(FinishedTask) \in DOMAIN queryCache'
              /\ queryCache'[KeyOf(FinishedTask)] =
                     [result |-> last'.value, timestamp |-> last'.doneAt]
              /\ last'.doneAt = now]_vars

\* Two queries were started at time 0 and both are over; they were identical
\* (one key is stored) and the second was started while the first had stored
\* nothing (it called the adapter too).  The entry has the result and the
\* later completion time of the one that returned last.
C34_Witness ==
    /\ pending = EmptyBag
    /\ "a" \in DOMAIN connections
    /\ connections["a"].queryCount = 2 /\ connections["a"].lastUsed = 0
    /\ last.op = "query" /\ last.cache /\ last.status = "ok" /\ Calls(last) = 1
    /\ last.value = "r2"
    /\ DOMAIN queryCache = {KeyOf(last)}
    /\ queryCache[KeyOf(last)] = [result |-> "r2", timestamp |-> last.doneAt]
    /\ last.doneAt > connections["a"].lastUsed
(***************************************************************************)
(* C35.  The retry executor does not distinguish failure kinds: every      *)
(* failure raised inside the adapter call, the deterministic               *)
(* malformed-request and unsupported-operation validation errors included, *)
(* is retried with backoff, so such a request is evaluated retries+1 times *)
(* and reported retries times through logger.warn before the error reaches *)
(* the caller.                                                             *)
(***************************************************************************)
\* The validation error the adapter raises for the request of query t.
C35_Invalid(t) ==
    /\ t.op = "query" /\ t.run # NoRun
    /\ ExecuteQuery(t.type, t.query).thrown # NoError

C35_ValidationErrorsRetried ==
    [][/\ (CallStep /\ TheCall.op = "query" /\ TheCall.id \in DOMAIN connections
             /\ ExecuteQuery(connections[TheCall.id].type, TheCall.query).thrown # NoError) =>
              /\ SuspendedAtCall
              /\ NewTask.pc = "exec" /\ Calls(NewTask) = 1
       /\ \A t \in Pending : C35_Invalid(t) =>
              \/ t \in BagToSet(pending')
              \/ \E u \in BagToSet(pending') :
                     /\ u.query = t.query
                     /\ \/ /\ t.pc = "exec" /\ u.pc = "sleep"
                           /\ Failures(u) = Failures(t) + 1
                           /\ Count(u.run.events, "warn") = Failures(u)
                           /\ Calls(u) = Calls(t)
                        \/ /\ t.pc = "sleep" /\ u.pc = "exec"
                           /\ Calls(u) = Calls(t) + 1 /\ Failures(u) = Failures(t)
              \/ /\ FinishStep /\ FinishedTask = t
                 /\ last'.status = "error"
                 /\ last'.error = ExecuteQuery(t.type, t.query).thrown
                 /\ Calls(last') = t.options.retries + 1
                 /\ Failures(last') = t.options.retries + 1
                 /\ Count(last'.run.events, "warn") = t.options.retries
                 /\ Count(last'.run.events, "sleep") = t.options.retries]_vars

\* An unsupported operation has reached the caller after MaxRetries + 1
\* evaluations and MaxRetries reports.
C35_Witness ==
    /\ last.op = "query" /\ last.status = "error"
    /\ last.error = UnsupportedOperationError("unknownOp")
    /\ Calls(last) = MaxRetries + 1
    /\ Count(last.run.events, "warn") = MaxRetries
(***************************************************************************)
(* C36.  When the handle's close operation fails during disconnect(id),    *)
(* disconnect fails with that error and the record stays in the registry   *)
(* unchanged (still counted against maxConnections and still usable by     *)
(* query), so the disconnect can be attempted again; disconnect deletes    *)
(* the record only after close has completed successfully.                 *)
(***************************************************************************)
C36_DisconnectEnds == FinishStep /\ FinishedTask.op = "disconnect"

\* The latest call, a disconnect made by the caller, failed in its close, and
\* nothing has been called since.
C36_CloseFailed ==
    /\ Sequential
    /\ last.op = "disconnect" /\ last.group = 0 /\ last.status = "error"

C36_RecordStaysOnCloseFailure ==
    [][/\ (C36_DisconnectEnds /\ last'.status = "error") =>
              /\ last'.error \in {DriverError(e) : e \in Errors}
              /\ UNCHANGED <<connections, queryCache, handleLog>>
       /\ (C36_DisconnectEnds /\ connections' # connections) =>
              /\ last'.status = "ok"
              /\ FinishedTask.connection \in handleLog'.closed
              /\ connections' = Delete(connections, FinishedTask.id)
       /\ C36_CloseFailed =>
              /\ last.id \in DOMAIN connections
              /\ connections[last.id].connection = last.connection
       /\ (C36_CloseFailed /\ CallStep) =>
              /\ \A u \in BagToSet(pending') :
                     /\ u.op # "connect"
                     /\ u.op = "query" =>
                            u.pc = "exec" /\ u.connection = last.connection
                     /\ u.op = "disconnect" =>
                            u.pc = "closing" /\ u.connection = last.connection
              /\ (CompletedAtCall /\ last'.op = "connect") =>
                     last'.error = CapacityError(maxConnections)
              /\ (CompletedAtCall /\ last'.op = "query") =>
                     last'.status = "ok" /\ Calls(last') = 0]_vars

\* The close of handle 1 was rejected: the disconnect has failed with the
\* driver's error and the record is in the registry with that handle, open,
\* the registry being full.
C36_Witness ==
    /\ C36_CloseFailed
    /\ last.error = DriverError("e1")
    /\ last.id \in DOMAIN connections
    /\ connections[last.id].connection = last.connection
    /\ last.connection \notin handleLog.closed
    /\ Size(connections) = maxConnections
(***************************************************************************)
(* C37.  A query that fails after exhausting its retries stores nothing:   *)
(* the cache is exactly as it was before the call (an existing entry for   *)
(* the same fingerprint, valid or stale, is neither removed nor refreshed) *)
(* and the connection record stays in the registry; only lastUsed and      *)
(* queryCount have changed.                                                *)
(***************************************************************************)
\* The caller awaits each call, so from the step in which a query is suspended in
\* its first attempt to the step in which it is over, it is the only call.
C37_FailedQueryStoresNothing ==
    [][/\ QueryMissStep =>
              /\ UNCHANGED queryCache
              /\ connections' =
                     [connections EXCEPT ![NewTask.id].queryCount = @ + 1,
                                         ![NewTask.id].lastUsed = now]
       /\ (QueriesPending # {} /\ ~QueryReturnStep) =>
              UNCHANGED <<queryCache, connections>>
       /\ (FinishStep /\ FinishedTask.op = "query" /\ last'.status = "error") =>
              /\ Failures(last') = last'.options.retries + 1
              /\ last'.id \in DOMAIN connections'
              /\ connections'[last'.id].connection = last'.connection]_vars

\* The second query on the connection found a stale entry under its key and
\* failed on both attempts: the entry is there, as old as it was, and the count
\* is 2.
C37_Witness ==
    /\ last.op = "query" /\ last.cache /\ last.status = "error" /\ Failures(last) = 2
    /\ KeyOf(last) \in DOMAIN queryCache
    /\ now - queryCache[KeyOf(last)].timestamp >= cacheTimeout
    /\ last.id \in DOMAIN connections
    /\ connections[last.id].queryCount = 2
    /\ connections[last.id].lastUsed > queryCache[KeyOf(last)].timestamp
(***************************************************************************)
(* C38.  Under every interleaving of disconnect and disconnectAll calls,   *)
(* the close operation of a given handle is invoked at most once: two      *)
(* overlapping disconnects of the same id, or a disconnect overlapping a   *)
(* disconnectAll, do not both close the handle.                            *)
(***************************************************************************)
\* The close calls on handle h that are awaited at this moment: one for each
\* disconnect suspended in its close of h.
C38_ClosesInFlight(h) == BagCardinality([t \in Holders(h) |-> pending[t]])

\* A close that has failed is left out, so that a disconnect made again after
\* a failure does not count as a second close.
C38_ClosedAtMostOnce ==
    \A h \in 1..nextHandle :
        C38_ClosesInFlight(h) + (IF h \in handleLog.closed THEN 1 ELSE 0) <= 1
====
